---- MODULE Spec2Model ----
(***************************************************************************)
(* Model of the sounding parsing / inversion detection / aggregation code  *)
(* of weather_tool (src/weather_tool/processor.py, fetcher.py).            *)
(*                                                                         *)
(* Data representation                                                     *)
(*   - a float is a record [k, v]: k = "num" with integer value v, or      *)
(*     k = "nan" (numpy NaN: every ordered comparison with it is false);   *)
(*   - a raw text field is a record [k, v]: k = "num" (text that parses    *)
(*     to the number v), k = "empty" (the empty string) or k = "str"       *)
(*     (text float() rejects);                                             *)
(*   - a raw line is [rule, names, cells]: rule = the line contains "--",  *)
(*     names = its 7-character fields read as column labels, cells = the   *)
(*     same fields read as values;                                         *)
(*   - a timestamp is [year, month, day, hour] (minutes are always 0).     *)
(* Only the columns the code names are carried: HGHT, TEMP, SKNT.          *)
(***************************************************************************)
EXTENDS Integers, Sequences, FiniteSets, TLC

VARIABLES
    pc,              \* position of the operation the specification runs
    h2_tags,         \* extract_soundings_from_html: the <h2> headers found
    pre_tags,        \* extract_soundings_from_html: the <pre> blocks found
    soundings,       \* extract_soundings_from_html: the list it returns
    raw_text,        \* process_sounding: argument raw_text (lines)
    time,            \* process_sounding: argument time
    result,          \* process_sounding: what it returns (and its locals)
    year,            \* process_data / create_combined_file argument
    months,          \* process_data / create_combined_file argument
    use_local_files, \* process_data argument
    month_i,         \* process_data: index in months of the current month
    html_content,    \* process_data: text of the current month, or None
    snd_i,           \* process_data: index of the next sounding to handle
    summary,         \* process_data: {"processed", "failed", "files"}
    all_inversions,  \* process_data: per-profile tables queued for aggregation
    error,           \* exception that left the operation, or "none"
    month_log,       \* process_data: what was done for each month so far
    subsets,         \* create_combined_file: the sheets written to DATA.xlsx
    variant,         \* which version of the tool runs: package or standalone
    scan,            \* process_sounding: the locals of the loop of lines 91-135
    cmd,             \* the command line a front end builds for weather_tool.py
    console          \* gui.py: the RedirectText object, its two threads and
                     \* the console widget

vars == <<pc, h2_tags, pre_tags, soundings, raw_text, time, result, year,
          months, use_local_files, month_i, html_content, snd_i, summary,
          all_inversions, error, month_log, subsets, variant, scan, cmd,
          console>>

----------------------------------------------------------------------------
(* Bounds of the model *)

MaxLevels == 3

MaxLadderLevels == 5

MaxHeaders == 3

MaxSpan == 2

MaxTables == 2

MaxMonths == 2

MaxProfiles == 1

MaxWindHundredths == 2000

MaxWindTenths == 2000

MaxScanLevels == 5

----------------------------------------------------------------------------
(* Values *)

Num(n) == [k |-> "num", v |-> n]

NaN == [k |-> "nan", v |-> 0]

EmptyField == [k |-> "empty", v |-> 0]

StrField == [k |-> "str", v |-> 0]

IsNum(a) == a.k = "num"

\* a > b, a >= b, a <= b on floats: false as soon as one side is NaN
Gt(a, b) == IsNum(a) /\ IsNum(b) /\ a.v > b.v

Ge(a, b) == IsNum(a) /\ IsNum(b) /\ a.v >= b.v

Le(a, b) == IsNum(a) /\ IsNum(b) /\ a.v <= b.v

\* a - b on floats: NaN propagates
Sub(a, b) == IF IsNum(a) /\ IsNum(b) THEN Num(a.v - b.v) ELSE NaN

RECURSIVE Flatten(_)
Flatten(ss) == IF ss = <<>> THEN <<>> ELSE Head(ss) \o Flatten(Tail(ss))

RECURSIVE DropDuplicates(_)
\* DataFrame.drop_duplicates(): keep the first of equal rows, order kept
DropDuplicates(rows) ==
    IF rows = <<>> THEN <<>>
    ELSE LET rest == DropDuplicates(SubSeq(rows, 1, Len(rows) - 1))
             last == rows[Len(rows)]
         IN  IF \E i \in 1..Len(rest) : rest[i] = last THEN rest
             ELSE Append(rest, last)

----------------------------------------------------------------------------
(* Program constants *)

\* processor.py:125  Ground = 1 if HGHT.iloc[0] <= 100
GroundMaxHeight == 100

\* processor.py:141  df_inverse[df_inverse["HGHT"] <= 1000]
MaxBaseHeight == 1000

\* processor.py:127-128  Night: hour == 0, Day: hour == 12
NightHour == 0

DayHour == 12

\* processor.py:198-211  the profile columns process_data drops
DroppedColumns ==
    {"PRES", "HGHT", "TEMP", "DWPT", "RELH", "MIXR", "DRCT", "SKNT", "THTA",
     "THTE", "THTV"}

----------------------------------------------------------------------------
(* process_sounding: parsing (processor.py:67-87) *)

\* raw_text.split("\n")[1:-1]
Middle(raw) == SubSeq(raw, 2, Len(raw) - 1)

RECURSIVE NonRule(_)
\* the lines without "--", in order
NonRule(lines) ==
    IF lines = <<>> THEN <<>>
    ELSE IF Head(lines).rule THEN NonRule(Tail(lines))
         ELSE <<Head(lines)>> \o NonRule(Tail(lines))

\* results: one row per retained line
ParseRows(raw) == NonRule(Middle(raw))

\* a raw field after replace("", nan).astype(float); a field float() rejects
\* never gets here (the ValueError is taken first)
ToFloat(f) == IF f.k = "num" THEN Num(f.v) ELSE NaN

\* a conversion that never raises
HasBadField_Never(data) == FALSE

\* astype(float) raises ValueError: some field of some data row is no number
HasBadField(data) ==
    \E r \in 1..Len(data) : \E c \in 1..Len(data[r].cells) :
        data[r].cells[c].k = "str"

HasCol(columns, name) == \E c \in 1..Len(columns) : columns[c] = name

ColIdx(columns, name) ==
    CHOOSE c \in 1..Len(columns) :
        /\ columns[c] = name
        /\ \A d \in 1..(c - 1) : columns[d] # name

\* the factor 0.51444444444444 of line 85 is
\* (FactorHead * 10^12 + FactorLimb * (10^8 + 10^4 + 1)) / 10^14
FactorHead == 51

FactorLimb == 4444

\* a conversion that cuts the digits after the second decimal off
RoundedMs_Truncated(v) ==
    LET B == FactorLimb * v
        S == (B % 10000) + (B \div 10000)
        c == IF S * 10001 >= 100000000 THEN 1 ELSE 0
    IN  (FactorHead * v + (B \div 10000) + c) \div 100

\* (x * 0.51444444444444).round(2) for x = v / 100 knots, 0 <= v <= 20000, in
\* 1/100 m/s. q is the product in 1/10000 m/s, cut; the digits cut off are
\* never all zero for v > 0, so no product is halfway between two results.
RoundedMs(v) ==
    LET B == FactorLimb * v
        S == (B % 10000) + (B \div 10000)
        c == IF S * 10001 >= 100000000 THEN 1 ELSE 0
        q == FactorHead * v + (B \div 10000) + c
    IN  (q + 50) \div 100

\* (x * 0.51444444444444).round(2), x in knots, the result in 1/100 m/s
KnotsToMs(x) ==
    IF ~IsNum(x) THEN NaN
    ELSE IF x.v >= 0 THEN Num(RoundedMs(100 * x.v))
         ELSE Num(0 - RoundedMs(100 * (0 - x.v)))

\* the DataFrame after lines 78-85: columns from the first row, the second row
\* skipped, short rows padded with NaN, SKNT converted
MakeFrame(results) ==
    LET columns == results[1].names
        data    == SubSeq(results, 3, Len(results))
        Field(r, c) ==
            LET v == IF c <= Len(data[r].cells) THEN ToFloat(data[r].cells[c])
                     ELSE NaN
            IN  IF columns[c] = "SKNT" THEN KnotsToMs(v) ELSE v
    IN  [columns |-> columns,
         rows    |-> [r \in 1..Len(data) |->
                        [c \in 1..Len(columns) |-> Field(r, c)]]]

\* df[name].iloc[i - 1]
At(df, name, i) == df.rows[i][ColIdx(df.columns, name)]

\* df["TEMP"] as a sequence
TempOf(df) == [i \in 1..Len(df.rows) |-> At(df, "TEMP", i)]

----------------------------------------------------------------------------
(* process_sounding: the scan (processor.py:89-135); indices are 1-based,   *)
(* level i of the model is df.iloc[i - 1]                                   *)

\* a start test that takes equal temperatures too
StartsRun_NonStrict(T, i) == Ge(T[i + 1], T[i])

\* a start test that takes a fall for a rise
StartsRun_OnFall(T, i) == Gt(T[i], T[i + 1])

\* line 95: an inversion starts at i
StartsRun(T, i) == Gt(T[i + 1], T[i])

\* the two-level look of the single-pass variant: a run is never extended
ContinuesRun_Never(T, j) == FALSE

\* a bound test that lets every j through
WithinProfile_Always(T, j) == TRUE

\* line 100: j < len(df) - 1
WithinProfile(T, j) == j < Len(T)

\* line 100: the run that reached j goes on to j + 1
ContinuesRun(T, j) == WithinProfile(T, j) /\ Ge(T[j + 1], T[j])

RECURSIVE Extend(_, _)
\* lines 97-103: inversion_end for a run whose second level is j
Extend(T, j) == IF ContinuesRun(T, j) THEN Extend(T, j + 1) ELSE j

\* the scan goes on at the end of the run, without the increment
Resume_AtEnd(end) == end

\* lines 132-135: i = inversion_end; i += 1
Resume(end) == end + 1

RECURSIVE Scan(_, _)
\* lines 93-135: the runs [start, end] the loop handles from index i on
Scan(T, i) ==
    IF ~(i < Len(T)) THEN <<>>
    ELSE IF StartsRun(T, i)
         THEN LET end == Extend(T, i + 1)
              IN  <<[start |-> i, end |-> end]>> \o Scan(T, Resume(end))
         ELSE Scan(T, i + 1)

----------------------------------------------------------------------------
(* process_sounding: metadata, filter and result (processor.py:105-145) *)

\* every run with two levels is kept
KeepSegment_Always(delta_h, delta_t) == TRUE

\* lines 110-115 and 118: both differences are > 0 (false when one is NaN)
KeepSegment(delta_h, delta_t) == Gt(delta_h, Num(0)) /\ Gt(delta_t, Num(0))

\* the rule of the single-pass variant (weather_tool.py:178) in place of the
\* threshold
GroundTag_Equals72(base_height) ==
    IF IsNum(base_height) /\ base_height.v = 72 THEN 1 ELSE 0

\* line 124-126
GroundTag(base_height) ==
    IF Le(base_height, Num(GroundMaxHeight)) THEN 1 ELSE 0

\* a night that lasts until noon
NightTag_UntilNoon(t) == IF t.hour <= DayHour THEN 1 ELSE 0

\* line 127
NightTag(t) == IF t.hour = NightHour THEN 1 ELSE 0

\* line 128
DayTag(t) == IF t.hour = DayHour THEN 1 ELSE 0

\* lines 107-128: inversion_data of the run, one row per level of the run,
\* every row carrying the metadata of the run
InversionData(df, t, run) ==
    LET delta_t == Sub(At(df, "TEMP", run.end), At(df, "TEMP", run.start))
        delta_h == Sub(At(df, "HGHT", run.end), At(df, "HGHT", run.start))
    IN  [i \in 1..(run.end - run.start + 1) |->
            [lvl    |-> df.rows[run.start + i - 1],
             date   |-> t,
             dT     |-> delta_t,
             dH     |-> delta_h,
             HL     |-> At(df, "HGHT", run.start),
             TL     |-> At(df, "TEMP", run.start),
             Ground |-> GroundTag(At(df, "HGHT", run.start)),
             Night  |-> NightTag(t),
             Day    |-> DayTag(t)]]

RECURSIVE Inversions(_, _, _)
\* the list `inversions` when the loop ends: inversion_data of every run that
\* passed lines 106 and 118, in the order found
Inversions(df, t, runs) ==
    IF runs = <<>> THEN <<>>
    ELSE LET run  == Head(runs)
             data == InversionData(df, t, run)
         IN  IF run.end > run.start /\ KeepSegment(data[1].dH, data[1].dT)
             THEN <<data>> \o Inversions(df, t, Tail(runs))
             ELSE Inversions(df, t, Tail(runs))

\* line 141: the row's own HGHT <= 1000
BelowLimit(columns, row) ==
    Le(row.lvl[ColIdx(columns, "HGHT")], Num(MaxBaseHeight))

RECURSIVE HeightFilter(_, _)
HeightFilter(columns, rows) ==
    IF rows = <<>> THEN <<>>
    ELSE IF BelowLimit(columns, Head(rows))
         THEN <<Head(rows)>> \o HeightFilter(columns, Tail(rows))
         ELSE HeightFilter(columns, Tail(rows))

\* lines 137-143
InverseFrame(columns, inversions) ==
    IF inversions # <<>>
    THEN [columns |-> columns,
          rows    |-> DropDuplicates(HeightFilter(columns, Flatten(inversions)))]
    ELSE [columns |-> <<>>, rows |-> <<>>]

NoFrame == [columns |-> <<>>, rows |-> <<>>]

\* what process_sounding hands back: status "none" for (None, None), "ok" for
\* (df, df_inverse), or the exception that leaves it; runs and inversions are
\* its locals when it ends
Returned(status, df, runs, inversions, df_inverse) ==
    [status |-> status, df |-> df, runs |-> runs, inversions |-> inversions,
     df_inverse |-> df_inverse]

\* processor.py:64-145
process_sounding(raw, t) ==
    LET results == ParseRows(raw)
    IN  IF Len(results) < 2
        THEN Returned("none", NoFrame, <<>>, <<>>, NoFrame)
        ELSE IF HasBadField(SubSeq(results, 3, Len(results)))
        THEN Returned("none", NoFrame, <<>>, <<>>, NoFrame)
        ELSE IF ~HasCol(results[1].names, "SKNT")
        THEN Returned("KeyError", NoFrame, <<>>, <<>>, NoFrame)
        ELSE LET df == MakeFrame(results)
             IN  IF Len(df.rows) < 2
                 THEN Returned("ok", df, <<>>, <<>>, NoFrame)
                 ELSE IF ~HasCol(df.columns, "TEMP")
                 THEN Returned("KeyError", df, <<>>, <<>>, NoFrame)
                 ELSE LET runs == Scan(TempOf(df), 1)
                      IN  IF runs = <<>>
                          THEN Returned("ok", df, <<>>, <<>>, NoFrame)
                          ELSE IF ~HasCol(df.columns, "HGHT")
                          THEN Returned("KeyError", df, runs, <<>>, NoFrame)
                          ELSE LET inv == Inversions(df, t, runs)
                               IN  Returned("ok", df, runs, inv,
                                            InverseFrame(df.columns, inv))

----------------------------------------------------------------------------
(* process_data: the per-profile table (processor.py:194-215) *)

RECURSIVE KeptColumns(_, _)
\* the <<name, value>> of the profile columns of a level that
\* df_inverse.drop([...], errors="ignore") leaves
KeptColumns(columns, lvl) ==
    IF columns = <<>> THEN <<>>
    ELSE IF Head(columns) \in DroppedColumns
         THEN KeptColumns(Tail(columns), Tail(lvl))
         ELSE <<<<Head(columns), Head(lvl)>>>>
              \o KeptColumns(Tail(columns), Tail(lvl))

RECURSIVE PositiveDeltaT(_)
\* single_data[single_data["ΔT"] > 0]
PositiveDeltaT(rows) ==
    IF rows = <<>> THEN <<>>
    ELSE IF Gt(Head(rows).dT, Num(0))
         THEN <<Head(rows)>> \o PositiveDeltaT(Tail(rows))
         ELSE PositiveDeltaT(Tail(rows))

\* lines 198-215: single_data, one record per row that is left
SingleData(df_inverse) ==
    LET dropped ==
            [i \in 1..Len(df_inverse.rows) |->
                LET r == df_inverse.rows[i]
                IN  [extra  |-> KeptColumns(df_inverse.columns, r.lvl),
                     date   |-> r.date,
                     dT     |-> r.dT,
                     dH     |-> r.dH,
                     HL     |-> r.HL,
                     TL     |-> r.TL,
                     Ground |-> r.Ground,
                     Night  |-> r.Night,
                     Day    |-> r.Day]]
    IN  DropDuplicates(PositiveDeltaT(dropped))

\* line 194
HasEvents(res) == res.status = "ok" /\ res.df_inverse.rows # <<>>

----------------------------------------------------------------------------
(* Calendar (calendar.monthrange, pd.to_datetime) *)

IsLeap(y) == (y % 4 = 0 /\ y % 100 # 0) \/ y % 400 = 0

\* calendar.monthrange(year, month)[1]
DaysInMonth(y, m) ==
    IF m = 2 THEN (IF IsLeap(y) THEN 29 ELSE 28)
    ELSE IF m \in {4, 6, 9, 11} THEN 30 ELSE 31

Timestamp(y, m, d, h) == [year |-> y, month |-> m, day |-> d, hour |-> h]

NoTime == [year |-> 0, month |-> 0, day |-> 0, hour |-> 0]

----------------------------------------------------------------------------
(* extract_soundings_from_html (processor.py:17-61)                         *)
(* A page is [h2, pre]: the texts of its <h2> and <pre> tags in document    *)
(* order. A header text is [match, hour, day, month, year]: match = the     *)
(* regular expression of line 49 finds "HHZ D MON YYYY" in it, hour = the   *)
(* two digits, day = the one or two digits (>= 1), month = the number of    *)
(* the three letters as a month name (0: no month name), year = 4 digits.   *)

\* pd.to_datetime(hour + day + month_name + year, format="%H%d%b%Y"):
\* a timestamp, or NoTime when it raises. %H takes both hour digits when
\* they read 00..23; otherwise it takes the first digit alone and %d must
\* take the second hour digit together with a one-digit day.
ToDatetime(h) ==
    IF h.month \notin 1..12 THEN NoTime
    ELSE IF h.hour <= 23
    THEN IF h.day >= 1 /\ h.day <= DaysInMonth(h.year, h.month)
         THEN Timestamp(h.year, h.month, h.day, h.hour)
         ELSE NoTime
    ELSE LET d == 10 * (h.hour % 10) + h.day
         IN  IF h.day <= 9 /\ d >= 1 /\ d <= DaysInMonth(h.year, h.month)
             THEN Timestamp(h.year, h.month, d, h.hour \div 10)
             ELSE NoTime

\* lines 49-56 without raising: the header gives a sounding
HeaderOk(h) == h.match /\ ToDatetime(h) # NoTime

\* line 26
NoData(h2, pre) == Len(h2) = 0 \/ Len(pre) = 0

\* line 31
TwiceAsMany(h2, pre) == Len(pre) = 2 * Len(h2)

\* a mismatch test that lets every pair of counts through
CountMismatch_Never(h2, pre) == FALSE

\* line 36
CountMismatch(h2, pre) == Len(h2) # Len(pre)

\* a slice that starts at the second block: pre_tags[1::2]
EveryOther_FromSecond(pre) == [k \in 1..(Len(pre) \div 2) |-> pre[2 * k]]

\* line 35: pre_tags[::2]
EveryOther(pre) == [k \in 1..((Len(pre) + 1) \div 2) |-> pre[2 * k - 1]]

\* the pre_tags that line 44 zips with the headers
PairedTags(h2, pre) == IF TwiceAsMany(h2, pre) THEN EveryOther(pre) ELSE pre

Min(a, b) == IF a <= b THEN a ELSE b

\* a pairing that drops the headers without a time first and zips what is
\* left with the blocks
ZipSoundings_Compacting(h2, pre, k) ==
    LET kept == SelectSeq(h2, HeaderOk)
    IN  [n \in 1..Min(Len(kept), Len(pre)) |->
            [raw_text |-> pre[n], time |-> ToDatetime(kept[n])]]

RECURSIVE ZipSoundings(_, _, _)
\* lines 43-58: the (pre.text, time) of the pairs k.. of zip(h2_tags, pre_tags)
\* whose header gives a time
ZipSoundings(h2, pre, k) ==
    IF k > Min(Len(h2), Len(pre)) THEN <<>>
    ELSE IF HeaderOk(h2[k])
         THEN <<[raw_text |-> pre[k], time |-> ToDatetime(h2[k])]>>
              \o ZipSoundings(h2, pre, k + 1)
         ELSE ZipSoundings(h2, pre, k + 1)

\* html_content = None: no text was obtained
NoHtml == [none |-> TRUE, h2 |-> <<>>, pre |-> <<>>]

Page(h2, pre) == [none |-> FALSE, h2 |-> h2, pre |-> pre]

\* BeautifulSoup(None, "html.parser") raises TypeError
SoupRaises(html) == html.none

\* the list extract_soundings_from_html returns for a page
extract_soundings_from_html(html) ==
    IF NoData(html.h2, html.pre) THEN <<>>
    ELSE IF ~TwiceAsMany(html.h2, html.pre) /\ CountMismatch(html.h2, html.pre)
         THEN <<>>
         ELSE ZipSoundings(html.h2, PairedTags(html.h2, html.pre), 1)

----------------------------------------------------------------------------
(* create_combined_file (processor.py:237-281) *)

\* a <= b on timestamps
TsLe(a, b) ==
    \/ a.year < b.year
    \/ a.year = b.year /\ a.month < b.month
    \/ a.year = b.year /\ a.month = b.month /\ a.day < b.day
    \/ a.year = b.year /\ a.month = b.month /\ a.day = b.day /\ a.hour <= b.hour

\* the days of a common year before each month
CumDays == <<0, 31, 59, 90, 120, 151, 181, 212, 243, 273, 304, 334>>

\* the days of year y before month m
DaysBefore(y, m) == CumDays[m] + (IF m > 2 /\ IsLeap(y) THEN 1 ELSE 0)

\* the hours from the start of its year to t
HourOfYear(t) == (DaysBefore(t.year, t.month) + t.day - 1) * 24 + t.hour

\* the instant h hours after the start of year y (within the year)
AtHourOfYear(y, h) ==
    LET doy == h \div 24 + 1
        m   == CHOOSE k \in 1..12 :
                   DaysBefore(y, k) < doy /\ doy <= DaysBefore(y, k) + DaysInMonth(y, k)
    IN  Timestamp(y, m, doy - DaysBefore(y, m), h % 24)

\* a grid with a slot every six hours
DateRange_SixHourly(start, end) ==
    LET n == IF TsLe(start, end)
             THEN (HourOfYear(end) - HourOfYear(start)) \div 6 + 1
             ELSE 0
    IN  [k \in 1..n |-> AtHourOfYear(start.year, HourOfYear(start) + 6 * (k - 1))]

\* pd.date_range(start=start, end=end, freq="12H") for two instants of one
\* year: start, start + 12 h, ... as long as the instant is <= end
DateRange(start, end) ==
    LET n == IF TsLe(start, end)
             THEN (HourOfYear(end) - HourOfYear(start)) \div 12 + 1
             ELSE 0
    IN  [k \in 1..n |-> AtHourOfYear(start.year, HourOfYear(start) + 12 * (k - 1))]

\* line 244: the date "{year}-{months[0]:02d}-01" is midnight of that day
StartDate(y, ms) == Timestamp(y, ms[1], 1, 0)

\* lines 245-247: the date "{year}-{end_month:02d}-{end_day}" is midnight of
\* that day
EndDate(y, ms) ==
    Timestamp(y, ms[Len(ms)], DaysInMonth(y, ms[Len(ms)]), 0)

\* lines 243-250
Grid(y, ms) == DateRange(StartDate(y, ms), EndDate(y, ms))

\* a row of data_full for a grid slot and an event that matches it; the tags
\* are floats once the column holds nulls
MatchedRow(d, ev) ==
    [date |-> d, extra |-> ev.extra, dT |-> ev.dT, dH |-> ev.dH, HL |-> ev.HL,
     TL |-> ev.TL, Ground |-> Num(ev.Ground), Night |-> Num(ev.Night),
     Day |-> Num(ev.Day)]

\* a row of data_full for a grid slot without event
NullRow(d) ==
    [date |-> d, extra |-> <<>>, dT |-> NaN, dH |-> NaN, HL |-> NaN, TL |-> NaN,
     Ground |-> NaN, Night |-> NaN, Day |-> NaN]

RECURSIVE MatchesOf(_, _)
\* the rows of combined_data whose date is d, in their order
MatchesOf(d, events) ==
    IF events = <<>> THEN <<>>
    ELSE IF Head(events).date = d
         THEN <<Head(events)>> \o MatchesOf(d, Tail(events))
         ELSE MatchesOf(d, Tail(events))

\* a join that keeps one row per slot: the first event of the slot
SlotRows_FirstOnly(d, events) ==
    LET found == MatchesOf(d, events)
    IN  IF found = <<>> THEN <<NullRow(d)>> ELSE <<MatchedRow(d, found[1])>>

\* the rows the left join gives for one slot: one per matching event, or
\* one null row
SlotRows(d, events) ==
    LET found == MatchesOf(d, events)
    IN  IF found = <<>> THEN <<NullRow(d)>>
        ELSE [k \in 1..Len(found) |-> MatchedRow(d, found[k])]

RECURSIVE MergeSlots(_, _, _, _)
\* the rows of the join for the slots lo..hi of dates, in the order of the
\* slots
MergeSlots(dates, events, lo, hi) ==
    IF lo > hi THEN <<>>
    ELSE IF lo = hi THEN SlotRows(dates[lo], events)
    ELSE LET mid == (lo + hi) \div 2
         IN  MergeSlots(dates, events, lo, mid)
             \o MergeSlots(dates, events, mid + 1, hi)

\* line 253: dates_df.merge(combined_data, on="date", how="left")
LeftMerge(dates, events) == MergeSlots(dates, events, 1, Len(dates))

RECURSIVE WhereIn(_, _, _, _, _, _)
\* the rows lo..hi of rows whose tags are in the sets G, N and D, in order
WhereIn(rows, G, N, D, lo, hi) ==
    IF lo > hi THEN <<>>
    ELSE IF lo = hi
    THEN IF rows[lo].Ground \in G /\ rows[lo].Night \in N /\ rows[lo].Day \in D
         THEN <<rows[lo]>> ELSE <<>>
    ELSE LET mid == (lo + hi) \div 2
         IN  WhereIn(rows, G, N, D, lo, mid) \o WhereIn(rows, G, N, D, mid + 1, hi)

\* a tag column without test
AnyTag == {Num(0), Num(1), NaN}

\* a mask that tests the Ground column only
Where_GroundOnly(rows, G, N, D) == WhereIn(rows, G, AnyTag, AnyTag, 1, Len(rows))

\* data_full[(Ground == g) & (Night == n) & (Day == d)]
Where(rows, G, N, D) == WhereIn(rows, G, N, D, 1, Len(rows))

\* lines 256-274
Subsets(data_full) ==
    [df_full             |-> data_full,
     df_ground           |-> Where(data_full, {Num(1)}, AnyTag, AnyTag),
     df_not_ground       |-> Where(data_full, {Num(0)}, AnyTag, AnyTag),
     df_day              |-> Where(data_full, AnyTag, AnyTag, {Num(1)}),
     df_night            |-> Where(data_full, AnyTag, {Num(1)}, AnyTag),
     df_ground_night     |-> Where(data_full, {Num(1)}, {Num(1)}, AnyTag),
     df_ground_day       |-> Where(data_full, {Num(1)}, AnyTag, {Num(1)}),
     df_not_ground_night |-> Where(data_full, {Num(0)}, {Num(1)}, AnyTag),
     df_not_ground_day   |-> Where(data_full, {Num(0)}, AnyTag, {Num(1)})]

\* pd.concat(all_inversions) raises ValueError on an empty list (line 241)
ConcatRaises(all_inv) == all_inv = <<>>

\* the sheets of DATA.xlsx
create_combined_file(all_inv, y, ms) ==
    Subsets(LeftMerge(Grid(y, ms), Flatten(all_inv)))

\* weather_tool.py:287: end_day = 31 for every month
StandaloneEndDay == 31

\* weather_tool.py:286-288: the date "{year}-{end_month:02d}-31"
EndDate_Standalone(y, ms) == Timestamp(y, ms[Len(ms)], StandaloneEndDay, 0)

\* pd.date_range raises ValueError on a date string whose day the month does
\* not have
DateRaises(t) == t.day > DaysInMonth(t.year, t.month)

\* weather_tool.py:285-291
Grid_Standalone(y, ms) == DateRange(StartDate(y, ms), EndDate_Standalone(y, ms))

\* weather_tool.py:278-322: the sheets of DATA.xlsx
standalone_create_combined_file(all_inv, y, ms) ==
    Subsets(LeftMerge(Grid_Standalone(y, ms), Flatten(all_inv)))

\* the two versions of the tool: the package weather_tool/ and the script
\* weather_tool.py
Variants == {"package", "standalone"}

\* no sheets: DATA.xlsx was not written
NoSheets ==
    [df_full |-> <<>>, df_ground |-> <<>>, df_not_ground |-> <<>>,
     df_day |-> <<>>, df_night |-> <<>>, df_ground_night |-> <<>>,
     df_ground_day |-> <<>>, df_not_ground_night |-> <<>>,
     df_not_ground_day |-> <<>>]

----------------------------------------------------------------------------
(* process_data (processor.py:148-234) *)

\* a guard that is always taken
ShouldCombine_Always(all_inv) == TRUE

\* line 231: if all_inversions
ShouldCombine(all_inv) == all_inv # <<>>

\* lines 184-186: with use_local_files and no file, `continue`
SkipsMonth(local, html) == local /\ html.none

\* lines 195, 225: a processed profile; `handled` is not a key of summary, it
\* counts the calls of process_sounding
CountProcessed(sm, t) ==
    [processed |-> sm.processed + 1, failed |-> sm.failed,
     files |-> Append(sm.files, t), handled |-> sm.handled + 1]

\* line 228
CountFailed(sm) ==
    [processed |-> sm.processed, failed |-> sm.failed + 1,
     files |-> sm.files, handled |-> sm.handled + 1]

\* process_sounding raised: nothing is counted
CountRaised(sm) ==
    [processed |-> sm.processed, failed |-> sm.failed,
     files |-> sm.files, handled |-> sm.handled + 1]

\* what month_log records when the loop body of line 158 starts for month m
MonthEntry(m, html, local, sm) ==
    [month |-> m, had_text |-> ~html.none,
     split_called |-> ~SkipsMonth(local, html),
     processed |-> sm.processed, failed |-> sm.failed]

----------------------------------------------------------------------------
(* Inputs: raw blocks as the station pages hold them *)

\* pre.text starts and ends with a line break: the first and last line of
\* the split are empty
FrameLine == [rule |-> FALSE, names |-> <<>>, cells |-> <<>>]

RuleLine == [rule |-> TRUE, names |-> <<>>, cells |-> <<>>]

NamesLine(names) ==
    [rule |-> FALSE, names |-> names,
     cells |-> [c \in 1..Len(names) |-> StrField]]

StdNames == <<"HGHT", "TEMP", "SKNT">>

UnitsLine == NamesLine(<<"m", "C", "knot">>)

DataLine(fields) ==
    [rule |-> FALSE, names |-> [c \in 1..Len(fields) |-> "value"],
     cells |-> fields]

\* a block with column names `names` and one data line per element of rows
Block(names, rows) ==
    <<FrameLine, RuleLine, NamesLine(names), UnitsLine, RuleLine>>
    \o [r \in 1..Len(rows) |-> DataLine(rows[r])]
    \o <<FrameLine>>

TempVals == {-5, -3, -1}

\* the temperatures of the blocks whose heights vary
FewTempVals == {-5, -1}

\* the heights of the blocks whose heights vary
HghtVals == {50, 200, 1200, 1300}

FieldsOf(vals) == {Num(x) : x \in vals} \cup {EmptyField}

\* wind speed field of the data lines, knots
StdWind == Num(10)

\* the data lines of one level: height, temperature, wind speed
LevelSet ==
    {<<h, t, StdWind>> :
        h \in FieldsOf(HghtVals), t \in FieldsOf(FewTempVals)}

\* heights of a sounding that rises level by level; both thresholds of the
\* code (100 m, 1000 m) are levels of it
LadderHeights == <<50, 100, 200, 1000, 1200, 1300, 1500, 2000>>

LadderHeight(i) == LadderHeights[i]

\* the data lines of a rising sounding with the temperatures temps
LadderRows(temps) ==
    [i \in 1..Len(temps) |-> <<Num(LadderHeight(i)), temps[i], StdWind>>]

\* a column-name row with a name that is not one of the sounding columns
ExtraNames == <<"HGHT", "TEMP", "SKNT", "OZON">>

\* the data lines of a rising sounding with a fourth column, which holds the
\* number of the level
ExtraRows(temps) ==
    [i \in 1..Len(temps) |->
        <<Num(LadderHeight(i)), temps[i], StdWind, Num(i)>>]

SeqsUpTo(S, n) == UNION {[1..m -> S] : m \in 0..n}

Hours == {0, 6, 12}

Idle == "idle"

----------------------------------------------------------------------------
(* SpecSeg: process_sounding on every well-formed block of up to MaxLevels  *)
(* levels of any height, on every rising sounding of up to MaxLadderLevels  *)
(* levels, and on rising soundings with a fourth column                     *)

InitSeg ==
    /\ pc = "sounding"
    /\ \/ \E rows \in SeqsUpTo(LevelSet, MaxLevels) :
              raw_text = Block(StdNames, rows)
       \/ \E temps \in SeqsUpTo(FieldsOf(TempVals), MaxLadderLevels) :
              raw_text = Block(StdNames, LadderRows(temps))
       \/ \E temps \in SeqsUpTo({Num(x) : x \in FewTempVals}, MaxLevels) :
              raw_text = Block(ExtraNames, ExtraRows(temps))
    /\ time \in {Timestamp(2021, 1, 15, h) : h \in Hours}
    /\ result = Idle
    /\ variant = "package" /\ scan = Idle
    /\ cmd = Idle /\ console = Idle
    /\ h2_tags = Idle /\ pre_tags = Idle /\ soundings = Idle
    /\ year = Idle /\ months = Idle /\ use_local_files = Idle
    /\ month_i = Idle /\ html_content = Idle /\ snd_i = Idle
    /\ summary = Idle /\ all_inversions = Idle /\ error = Idle
    /\ month_log = Idle /\ subsets = Idle

ProcessSounding ==
    /\ UNCHANGED <<variant, scan, cmd, console>>
    /\ pc = "sounding"
    /\ result' = process_sounding(raw_text, time)
    /\ pc' = "returned"
    /\ UNCHANGED <<h2_tags, pre_tags, soundings, raw_text, time, year, months,
                   use_local_files, month_i, html_content, snd_i, summary,
                   all_inversions, error, month_log, subsets>>

NextSeg == ProcessSounding

SpecSeg == InitSeg /\ [][NextSeg]_vars

----------------------------------------------------------------------------
(* Claims about process_sounding, under SpecSeg *)

Returned_ok == pc = "returned" /\ result.status = "ok"

\* the per-profile events: the rows process_data keeps of df_inverse
EventsOf(res) == SingleData(res.df_inverse)

AllNumeric(T) == \A i \in 1..Len(T) : IsNum(T[i])

C4_EventsHaveBaseWithinLimit ==
    Returned_ok =>
        /\ \A n \in 1..Len(result.inversions) :
            LET seg == result.inversions[n][1]
            IN  (\E e \in 1..Len(EventsOf(result)) :
                    /\ EventsOf(result)[e].HL = seg.HL
                    /\ EventsOf(result)[e].TL = seg.TL
                    /\ EventsOf(result)[e].dT = seg.dT
                    /\ EventsOf(result)[e].dH = seg.dH)
                <=> Le(seg.HL, Num(MaxBaseHeight))
        /\ \A e \in 1..Len(EventsOf(result)) :
            Le(EventsOf(result)[e].HL, Num(MaxBaseHeight))

\* C5: every event carries the first-to-last differences of a yielded run,
\* Ground = 1 iff the base height of that run is <= 100 m, Night = 1 iff the
\* hour is 0, Day = 1 iff the hour is 12; and the 00Z profile that rises from
\* -5 to -1 degrees between 50 m and 200 m over 3 rows yields exactly one
\* event: delta-T 4, delta-H 150, Ground 1, Night 1, Day 0.
C5_EventsAreTagged ==
    Returned_ok =>
        /\ \A e \in 1..Len(EventsOf(result)) :
            LET ev == EventsOf(result)[e]
            IN  /\ \E n \in 1..Len(result.runs) :
                    LET base == result.runs[n].start
                        top  == result.runs[n].end
                        hl   == At(result.df, "HGHT", base)
                    IN  /\ ev.HL = hl
                        /\ ev.TL = At(result.df, "TEMP", base)
                        /\ ev.dT = Sub(At(result.df, "TEMP", top), ev.TL)
                        /\ ev.dH = Sub(At(result.df, "HGHT", top), hl)
                        /\ ev.Ground = 1 <=> (IsNum(hl) /\ hl.v <= 100)
                        /\ ev.Ground \in {0, 1}
                /\ ev.date = time
                /\ ev.Night = 1 <=> time.hour = 0
                /\ ev.Day = 1 <=> time.hour = 12
                /\ ev.Night \in {0, 1} /\ ev.Day \in {0, 1}
        /\ (/\ raw_text = Block(StdNames, LadderRows(<<Num(-5), Num(-3), Num(-1)>>))
            /\ time.hour = 0)
           => EventsOf(result) =
                <<[extra |-> <<>>, date |-> time, dT |-> Num(4), dH |-> Num(150),
                   HL |-> Num(50), TL |-> Num(-5), Ground |-> 1, Night |-> 1,
                   Day |-> 0]>>

\* C5 witness: the 00Z scenario has been processed and produced its event
C5_Witness ==
    /\ Returned_ok
    /\ raw_text = Block(StdNames, LadderRows(<<Num(-5), Num(-3), Num(-1)>>))
    /\ time.hour = 0
    /\ Len(EventsOf(result)) = 1
    /\ EventsOf(result)[1].Ground = 1

\* the rows of a block that are left when the framing lines, the rule lines,
\* the column-name row and the units row are taken away
DataRows(raw) ==
    LET results == ParseRows(raw)
    IN  IF Len(results) <= 2 THEN <<>> ELSE SubSeq(results, 3, Len(results))

\* C12: a block with 0 or 1 data rows gives no Profile: process_sounding
\* returns (None, None) for it.
C12_FewDataRowsGiveNoProfile ==
    (pc = "returned" /\ Len(DataRows(raw_text)) < 2) => result.status = "none"

\* the fields of column `name` of the data rows of a block, top to bottom
RawColumn(raw, name) ==
    LET c == ColIdx(ParseRows(raw)[1].names, name)
    IN  [r \in 1..Len(DataRows(raw)) |-> DataRows(raw)[r].cells[c]]

\* every field is a number and each is above the one before
StrictlyRising(F) ==
    /\ \A i \in 1..Len(F) : F[i].k = "num"
    /\ \A i \in 1..(Len(F) - 1) : F[i + 1].v > F[i].v

\* every field is a number and each is below the one before
StrictlyFalling(F) ==
    /\ \A i \in 1..Len(F) : F[i].k = "num"
    /\ \A i \in 1..(Len(F) - 1) : F[i + 1].v < F[i].v

\* C15 as stated: a profile of N >= 2 levels whose temperature rises strictly
\* from each level to the next gives exactly one segment, levels 0..N-1
\* (model: 1..N).
C15_RisingProfileIsOneSegment ==
    (/\ pc = "returned"
     /\ Len(DataRows(raw_text)) >= 2
     /\ StrictlyRising(RawColumn(raw_text, "TEMP")))
    =>  /\ result.status = "ok"
        /\ Len(result.inversions) = 1
        /\ Len(result.inversions[1]) = Len(DataRows(raw_text))

\* C15 amended: such a profile has exactly one run, levels 0..N-1; it is the
\* one segment returned, with all N levels, when the base and the top level
\* have a height and the top is above the base, and no segment is returned
\* otherwise.
C15_RisingProfileIsOneRun ==
    (/\ pc = "returned"
     /\ Len(DataRows(raw_text)) >= 2
     /\ StrictlyRising(RawColumn(raw_text, "TEMP")))
    =>  LET N == Len(DataRows(raw_text))
            H == RawColumn(raw_text, "HGHT")
        IN  /\ result.status = "ok"
            /\ result.runs = <<[start |-> 1, end |-> N]>>
            /\ IF H[1].k = "num" /\ H[N].k = "num" /\ H[N].v > H[1].v
               THEN /\ Len(result.inversions) = 1
                    /\ Len(result.inversions[1]) = N
                    /\ \A k \in 1..N :
                         result.inversions[1][k].lvl = result.df.rows[k]
               ELSE result.inversions = <<>>

\* C15 witness: the 12Z sounding that rises -5, -3, -1 over 50, 100, 200 m
\* gave the one segment of levels 1..3
C15_Witness ==
    /\ pc = "returned"
    /\ time.hour = 12
    /\ raw_text = Block(StdNames, LadderRows(<<Num(-5), Num(-3), Num(-1)>>))
    /\ result.runs = <<[start |-> 1, end |-> 3]>>
    /\ Len(result.inversions) = 1 /\ Len(result.inversions[1]) = 3

\* C16: a profile whose temperature falls strictly from each level to the
\* next has no run, no segment and no event.
C16_FallingProfileHasNoSegment ==
    (/\ pc = "returned"
     /\ Len(DataRows(raw_text)) >= 2
     /\ StrictlyFalling(RawColumn(raw_text, "TEMP")))
    =>  /\ result.status = "ok"
        /\ result.runs = <<>>
        /\ result.inversions = <<>>
        /\ result.df_inverse = NoFrame
        /\ EventsOf(result) = <<>>

\* C16 witness: the sounding that falls -1, -3, -5 gave nothing
C16_Witness ==
    /\ pc = "returned"
    /\ raw_text = Block(StdNames, LadderRows(<<Num(-1), Num(-3), Num(-5)>>))
    /\ result.status = "ok"
    /\ result.runs = <<>> /\ EventsOf(result) = <<>>

\* both ends of the run have a height and a temperature, and the top is
\* above and warmer than the base
GoodRun(df, run) ==
    LET hb == At(df, "HGHT", run.start)
        ht == At(df, "HGHT", run.end)
        tb == At(df, "TEMP", run.start)
        tt == At(df, "TEMP", run.end)
    IN  /\ run.end > run.start
        /\ hb.k = "num" /\ ht.k = "num" /\ tb.k = "num" /\ tt.k = "num"
        /\ ht.v - hb.v > 0
        /\ tt.v - tb.v > 0

\* C17: every event has delta-T > 0 and delta-H > 0, the differences between
\* the last and the first level of its run; the segments returned are those
\* of the runs whose differences are both > 0, in order, and a run with a
\* difference <= 0 or a missing base or top value gives no segment.
C17_EventsHavePositiveDeltas ==
    Returned_ok =>
        LET df   == result.df
            good == SelectSeq(result.runs, LAMBDA r : GoodRun(df, r))
        IN  /\ Len(result.inversions) = Len(good)
            /\ \A n \in 1..Len(good) :
                LET run == good[n]
                    seg == result.inversions[n]
                IN  /\ Len(seg) = run.end - run.start + 1
                    /\ \A k \in 1..Len(seg) :
                        /\ seg[k].lvl = df.rows[run.start + k - 1]
                        /\ seg[k].dT = Num(At(df, "TEMP", run.end).v
                                           - At(df, "TEMP", run.start).v)
                        /\ seg[k].dH = Num(At(df, "HGHT", run.end).v
                                           - At(df, "HGHT", run.start).v)
            /\ \A n \in 1..Len(result.df_inverse.rows) :
                LET row == result.df_inverse.rows[n]
                IN  /\ row.dT.k = "num" /\ row.dT.v > 0
                    /\ row.dH.k = "num" /\ row.dH.v > 0
            /\ \A n \in 1..Len(EventsOf(result)) :
                LET e == EventsOf(result)[n]
                IN  /\ e.dT.k = "num" /\ e.dT.v > 0
                    /\ e.dH.k = "num" /\ e.dH.v > 0

\* C17 witness: a run whose top level (50 m) is below its base level (200 m)
\* gave no segment and no event
C17_Witness ==
    /\ Returned_ok
    /\ Len(result.df.rows) = 2
    /\ At(result.df, "HGHT", 1) = Num(200) /\ At(result.df, "HGHT", 2) = Num(50)
    /\ result.runs = <<[start |-> 1, end |-> 2]>>
    /\ result.inversions = <<>> /\ EventsOf(result) = <<>>

\* C21: every event is either Ground or not Ground, and is Night only (00Z),
\* Day only (12Z) or neither (any other hour); Day and Night are never both
\* set.
C21_DayAndNightExclusive ==
    Returned_ok =>
        \A n \in 1..Len(EventsOf(result)) :
            LET e == EventsOf(result)[n]
            IN  /\ e.Ground \in {0, 1}
                /\ e.Night \in {0, 1}
                /\ e.Day \in {0, 1}
                /\ e.Night + e.Day <= 1
                /\ e.Night = 1 <=> time.hour = 0
                /\ e.Day = 1 <=> time.hour = 12

\* C21 witness: an event of an 06Z sounding, neither Day nor Night
C21_Witness ==
    /\ Returned_ok
    /\ time.hour = 6
    /\ EventsOf(result) # <<>>
    /\ EventsOf(result)[1].Day = 0 /\ EventsOf(result)[1].Night = 0

\* C22: the table process_data keeps of a profile has the columns date,
\* delta-T, delta-H, HL, TL, Ground, Night, Day and no column of the profile's
\* column-name row, whatever its names.
C22_OnlyEventColumnsRemain ==
    Returned_ok =>
        \A n \in 1..Len(EventsOf(result)) : EventsOf(result)[n].extra = <<>>

\* the heights of the profile are all present and strictly increasing
HeightsStrictlyIncreasing(df) ==
    /\ \A a \in 1..Len(df.rows) : At(df, "HGHT", a).k = "num"
    /\ \A a \in 1..(Len(df.rows) - 1) :
           At(df, "HGHT", a).v < At(df, "HGHT", a + 1).v

\* the segments kept whose base is at or below 1000 m, in order
KeptBelowLimit(res) ==
    SelectSeq(res.inversions,
              LAMBDA seg : seg[1].HL.k = "num" /\ seg[1].HL.v <= MaxBaseHeight)

\* C27: for a profile whose heights are strictly increasing, the per-profile
\* event table has exactly one row per kept segment with base height
\* <= 1000 m, in order: no segment twice, no two segments in one row.
C27_OneRowPerKeptSegment ==
    (Returned_ok /\ HeightsStrictlyIncreasing(result.df)) =>
        /\ Len(EventsOf(result)) = Len(KeptBelowLimit(result))
        /\ \A n \in 1..Len(EventsOf(result)) :
               n <= Len(KeptBelowLimit(result)) =>
                   /\ EventsOf(result)[n].HL = KeptBelowLimit(result)[n][1].HL
                   /\ EventsOf(result)[n].TL = KeptBelowLimit(result)[n][1].TL

\* C24: the levels of every Profile process_sounding returns are in
\* increasing height order (compared where both heights are present).
C24_ProfileLevelsOrderedByHeight ==
    (Returned_ok /\ HasCol(result.df.columns, "HGHT")) =>
        \A a \in 1..Len(result.df.rows) : \A b \in (a + 1)..Len(result.df.rows) :
            LET ha == At(result.df, "HGHT", a)
                hb == At(result.df, "HGHT", b)
            IN  (ha.k = "num" /\ hb.k = "num") => ha.v < hb.v

----------------------------------------------------------------------------
(* SpecSplit: extract_soundings_from_html on pages of up to MaxHeaders      *)
(* headers and up to 2 * MaxHeaders + 1 blocks; block k of a page has the   *)
(* text k, so that a block is known by its text                             *)

Header(match, hour, day, month, y) ==
    [match |-> match, hour |-> hour, day |-> day, month |-> month, year |-> y]

\* "00Z 15 Jan 2021", "12Z 31 Jan 2021", a header without a time,
\* "12Z 31 Feb 2021" (no such day), "31Z 5 Jan 2021" (no such hour)
HeaderSet ==
    {Header(TRUE, 0, 15, 1, 2021), Header(TRUE, 12, 31, 1, 2021),
     Header(FALSE, 0, 0, 0, 0), Header(TRUE, 12, 31, 2, 2021),
     Header(TRUE, 31, 5, 1, 2021)}

InitSplit ==
    /\ pc = "split"
    /\ \/ \E h2 \in SeqsUpTo(HeaderSet, MaxHeaders) :
            \E n \in 0..(2 * MaxHeaders + 1) :
                html_content = Page(h2, [k \in 1..n |-> k])
       \/ html_content = NoHtml
    /\ h2_tags = <<>> /\ pre_tags = <<>> /\ soundings = <<>>
    /\ error = "none"
    /\ variant = "package" /\ scan = Idle
    /\ cmd = Idle /\ console = Idle
    /\ raw_text = Idle /\ time = Idle /\ result = Idle
    /\ year = Idle /\ months = Idle /\ use_local_files = Idle
    /\ month_i = Idle /\ snd_i = Idle
    /\ summary = Idle /\ all_inversions = Idle
    /\ month_log = Idle /\ subsets = Idle

ExtractSoundings ==
    /\ UNCHANGED <<variant, scan, cmd, console>>
    /\ pc = "split"
    /\ IF SoupRaises(html_content)
       THEN /\ error' = "TypeError"
            /\ pc' = "split_raised"
            /\ UNCHANGED <<h2_tags, pre_tags, soundings>>
       ELSE /\ h2_tags' = html_content.h2
            /\ pre_tags' = PairedTags(html_content.h2, html_content.pre)
            /\ soundings' = extract_soundings_from_html(html_content)
            /\ pc' = "split_returned"
            /\ UNCHANGED error
    /\ UNCHANGED <<html_content, raw_text, time, result, year, months,
                   use_local_files, month_i, snd_i, summary, all_inversions,
                   month_log, subsets>>

NextSplit == ExtractSoundings

SpecSplit == InitSplit /\ [][NextSplit]_vars

----------------------------------------------------------------------------
(* Claims about extract_soundings_from_html, under SpecSplit *)

\* the number of headers among the first k that give a sounding
Rank(h2, k) == Cardinality({j \in 1..k : HeaderOk(h2[j])})

\* the soundings are those of the headers that give a time, each with the
\* block Table(k) as its text, in the order of the headers
PairsHeaderWith(Table(_)) ==
    LET h2 == html_content.h2
    IN  /\ Len(soundings) = Rank(h2, Len(h2))
        /\ \A k \in 1..Len(h2) :
            HeaderOk(h2[k]) =>
                /\ soundings[Rank(h2, k)].raw_text = Table(k)
                /\ soundings[Rank(h2, k)].time = ToDatetime(h2[k])

\* C9: with h >= 1 headers and 2h blocks, header k (from 0) is paired with
\* block 2k (model: header k from 1 with block 2k - 1) and the blocks at odd
\* positions are not used; with h headers and h blocks, header k is paired
\* with block k.
C9_EveryOtherPairing ==
    (pc = "split_returned" /\ Len(html_content.h2) >= 1) =>
        LET h   == Len(html_content.h2)
            pre == html_content.pre
            Twice(k) == pre[2 * k - 1]
            Same(k) == pre[k]
        IN  /\ Len(pre) = 2 * h =>
                /\ pre_tags = [k \in 1..h |-> pre[2 * k - 1]]
                /\ PairsHeaderWith(Twice)
                /\ \A n \in 1..Len(soundings) : soundings[n].raw_text % 2 = 1
            /\ Len(pre) = h =>
                /\ pre_tags = pre
                /\ PairsHeaderWith(Same)

\* C9 witness: 2 headers with a time and 4 blocks gave header 0 with block 0
\* and header 1 with block 2 (texts 1 and 3)
C9_Witness ==
    /\ pc = "split_returned"
    /\ Len(html_content.h2) = 2 /\ Len(html_content.pre) = 4
    /\ Len(soundings) = 2
    /\ soundings[1].raw_text = 1 /\ soundings[2].raw_text = 3

\* C10: with no header, no block, or a block count that is neither the
\* header count nor twice it, the result is the empty list and nothing is
\* raised.
C10_UnreconciledCountsGiveEmpty ==
    (pc \in {"split_returned", "split_raised"} /\ ~html_content.none) =>
        LET h == Len(html_content.h2)
            n == Len(html_content.pre)
        IN  (h = 0 \/ n = 0 \/ (n # h /\ n # 2 * h)) =>
                /\ pc = "split_returned"
                /\ error = "none"
                /\ soundings = <<>>

\* C10 witness: 2 headers that give a time and 3 blocks returned the empty
\* list
C10_Witness ==
    /\ pc = "split_returned"
    /\ Len(html_content.h2) = 2 /\ Len(html_content.pre) = 3
    /\ \A k \in 1..2 : HeaderOk(html_content.h2[k])
    /\ soundings = <<>>

\* the header text matches the pattern and its time string parses
GivesInstant(h) == h.match /\ ToDatetime(h) # NoTime

\* the block that zip pairs with header k of the page
OwnTable(k) ==
    IF Len(html_content.pre) = 2 * Len(html_content.h2)
    THEN html_content.pre[2 * k - 1]
    ELSE html_content.pre[k]

\* C11: on a page whose counts are reconciled the result is, in document
\* order, one (own block, time) for every header that matches and parses; a
\* header that does not is dropped with its own block, and every later header
\* keeps its own block. A header with an hour 00..23 has the time it reads.
C11_OutputIsKeptHeadersInOrder ==
    (/\ pc = "split_returned"
     /\ Len(html_content.h2) >= 1
     /\ Len(html_content.pre) \in {Len(html_content.h2), 2 * Len(html_content.h2)})
    =>  LET h2   == html_content.h2
            kept == {k \in 1..Len(h2) : GivesInstant(h2[k])}
            pos(k) == Cardinality({j \in kept : j <= k})
        IN  /\ Len(soundings) = Cardinality(kept)
            /\ \A k \in kept :
                /\ soundings[pos(k)].raw_text = OwnTable(k)
                /\ soundings[pos(k)].time = ToDatetime(h2[k])
                /\ h2[k].hour <= 23 =>
                     soundings[pos(k)].time =
                        Timestamp(h2[k].year, h2[k].month, h2[k].day, h2[k].hour)
            /\ \A k \in (1..Len(h2)) \ kept :
                \A n \in 1..Len(soundings) : soundings[n].raw_text # OwnTable(k)
            /\ \A n \in 1..(Len(soundings) - 1) :
                soundings[n].raw_text < soundings[n + 1].raw_text

\* C11 witness: of three headers with three blocks the second has no time;
\* the result is the first with block 1 and the third with block 3
C11_Witness ==
    /\ pc = "split_returned"
    /\ Len(html_content.h2) = 3 /\ Len(html_content.pre) = 3
    /\ GivesInstant(html_content.h2[1])
    /\ ~html_content.h2[2].match
    /\ GivesInstant(html_content.h2[3])
    /\ Len(soundings) = 2
    /\ soundings[1].raw_text = 1 /\ soundings[2].raw_text = 3

----------------------------------------------------------------------------
(* SpecGrid: create_combined_file for the years of Years, the ranges of up  *)
(* to MaxSpan months from a month of FirstMonths, and up to MaxTables       *)
(* per-profile tables, each the table process_data builds for a sounding    *)

Years == {2020, 2021}

\* the first months of the ranges: months of 31, 28 or 29, and 30 days, and
\* the last month of the year
FirstMonths == {1, 2, 4, 12}

\* range(first, last + 1)
MonthRange(first, last) == [k \in 1..(last - first + 1) |-> first + k - 1]

\* a sounding with one inversion from the ground
OneRunBlock == Block(StdNames, LadderRows(<<Num(-5), Num(-3), Num(-1)>>))

\* a sounding with two inversions, one from the ground and one above it
TwoRunBlock ==
    Block(StdNames, LadderRows(<<Num(-5), Num(-1), Num(-5), Num(-1)>>))

\* a sounding with one inversion above the ground
ElevatedBlock ==
    Block(StdNames, LadderRows(<<Num(-1), Num(-1), Num(-5), Num(-1)>>))

\* the table process_data queues for a sounding (lines 192-226)
TableOf(block, t) == SingleData(process_sounding(block, t).df_inverse)

\* tables of soundings of the range: at 00Z, 12Z and 06Z of its first day,
\* and at 00Z and 12Z of its last day
TableSet(y, ms) ==
    LET first == StartDate(y, ms)
        last  == EndDate(y, ms)
    IN  {TableOf(OneRunBlock, first), TableOf(TwoRunBlock, first),
         TableOf(ElevatedBlock, last),
         TableOf(OneRunBlock, Timestamp(last.year, last.month, last.day, 12)),
         TableOf(ElevatedBlock, Timestamp(first.year, first.month, 1, 12)),
         TableOf(OneRunBlock, Timestamp(first.year, first.month, 1, 6))}

InitGrid ==
    /\ pc = "combine"
    /\ year \in Years
    /\ \E first \in FirstMonths : \E last \in first..Min(12, first + MaxSpan - 1) :
            months = MonthRange(first, last)
    /\ \E n \in 1..MaxTables : all_inversions \in [1..n -> TableSet(year, months)]
    /\ variant \in Variants /\ scan = Idle
    /\ cmd = Idle /\ console = Idle
    /\ subsets = NoSheets
    /\ error = "none"
    /\ h2_tags = Idle /\ pre_tags = Idle /\ soundings = Idle
    /\ raw_text = Idle /\ time = Idle /\ result = Idle
    /\ use_local_files = Idle /\ month_i = Idle /\ html_content = Idle
    /\ snd_i = Idle /\ summary = Idle /\ month_log = Idle

CreateCombinedFile ==
    /\ pc = "combine"
    /\ IF variant = "standalone"
       THEN IF DateRaises(EndDate_Standalone(year, months))
            THEN pc' = "combine_raised" /\ error' = "ValueError"
                 /\ UNCHANGED subsets
            ELSE /\ subsets' =
                      standalone_create_combined_file(all_inversions, year, months)
                 /\ pc' = "combined"
                 /\ UNCHANGED error
       ELSE /\ subsets' = create_combined_file(all_inversions, year, months)
            /\ pc' = "combined"
            /\ UNCHANGED error
    /\ UNCHANGED <<variant, scan, cmd, console>>
    /\ UNCHANGED <<h2_tags, pre_tags, soundings, raw_text, time, result, year,
                   months, use_local_files, month_i, html_content, snd_i,
                   summary, all_inversions, month_log>>

NextGrid == CreateCombinedFile

SpecGrid == InitGrid /\ [][NextGrid]_vars

----------------------------------------------------------------------------
(* Claims about create_combined_file, under SpecGrid *)

\* the slots of the grid, read off the full table (the join keeps every slot)
SlotsOf(rows) == {rows[i].date : i \in 1..Len(rows)}

\* the days of the months ms of year y
DaysOfRange(y, ms) ==
    {<<ms[k], d>> : k \in 1..Len(ms), d \in 1..31} \cap
    {<<m, d>> \in (1..12) \X (1..31) : d <= DaysInMonth(y, m)}

\* C2: the grid has the 00:00 and the 12:00 slot of every day from the first
\* day of the first month to the last day of the last month, and no other:
\* 2 * D slots for D days (62 for January 2021), the 12:00 slot of the last
\* day included.
C2_GridHasTwoSlotsPerDay ==
    pc = "combined" =>
        LET slots == SlotsOf(subsets.df_full)
            days  == DaysOfRange(year, months)
        IN  /\ \A md \in days : \A h \in {0, 12} :
                Timestamp(year, md[1], md[2], h) \in slots
            /\ Cardinality(slots) = 2 * Cardinality(days)
            /\ (year = 2021 /\ months = <<1>>) => Cardinality(slots) = 62

\* the events handed to create_combined_file, in order
EventsIn(all_inv) == Flatten(all_inv)

\* C3 as stated: the full table has as many rows as the grid has slots,
\* whatever the events.
C3_RowCountIsSlotCount ==
    pc = "combined" => Len(subsets.df_full) = Len(Grid(year, months))

\* C3 amended: the full table has one row for every grid slot without event
\* and one row for every event whose timestamp is a grid slot; its row count
\* is the number of grid slots exactly when no two events share a grid slot,
\* and larger otherwise.
C3_RowCountIsSlotsAndEvents ==
    pc = "combined" =>
        LET slots  == SlotsOf(subsets.df_full)
            grid   == Grid(year, months)
            events == EventsIn(all_inversions)
            onGrid == {k \in 1..Len(events) : events[k].date \in slots}
            free   == {d \in slots : \A k \in onGrid : events[k].date # d}
            shared == \E j, k \in onGrid : j # k /\ events[j].date = events[k].date
        IN  /\ slots = {grid[i] : i \in 1..Len(grid)}
            /\ Len(subsets.df_full) = Cardinality(free) + Cardinality(onGrid)
            /\ shared <=> Len(subsets.df_full) > Cardinality(slots)
            /\ ~shared <=> Len(subsets.df_full) = Cardinality(slots)

\* C3 witness: two events of one sounding share a grid slot and the full
\* table is longer than the grid
C3_Witness ==
    /\ pc = "combined"
    /\ Len(all_inversions) = 1 /\ Len(all_inversions[1]) = 2
    /\ all_inversions[1][1].date = all_inversions[1][2].date
    /\ Len(subsets.df_full) = Len(Grid(year, months)) + 1

\* the number of days of month m of year y, by the calendar
TrueLastDay(y, m) ==
    IF m = 2
    THEN (IF y % 400 = 0 \/ (y % 4 = 0 /\ y % 100 # 0) THEN 29 ELSE 28)
    ELSE 30 + ((m + m \div 8) % 2)

\* C18: in both versions create_combined_file ends without error and the last
\* slot of its grid is on the last calendar day of the end month.
C18_GridEndsOnLastCalendarDay ==
    (pc \in {"combined", "combine_raised"}) =>
        /\ pc = "combined"
        /\ error = "none"
        /\ LET full == subsets.df_full
               last == full[Len(full)].date
               m    == months[Len(months)]
           IN  /\ last.year = year
               /\ last.month = m
               /\ last.day = TrueLastDay(year, m)

\* tag x of a row is set / is clear
IsSet(x) == x = Num(1)

IsClear(x) == x = Num(0)

\* the eight tagged sheets
TaggedSheets ==
    {"df_ground", "df_not_ground", "df_day", "df_night", "df_ground_night",
     "df_ground_day", "df_not_ground_night", "df_not_ground_day"}

\* C19: each tagged sheet is the rows of the full table, in order, whose own
\* tags satisfy the sheet's predicate; a grid slot without event is one row of
\* the full table with null tags and a row of no tagged sheet.
C19_SubsetsFollowTags ==
    pc = "combined" =>
        LET full == subsets.df_full
            events == Flatten(all_inversions)
        IN  /\ subsets.df_ground =
                  SelectSeq(full, LAMBDA r : IsSet(r.Ground))
            /\ subsets.df_not_ground =
                  SelectSeq(full, LAMBDA r : IsClear(r.Ground))
            /\ subsets.df_day = SelectSeq(full, LAMBDA r : IsSet(r.Day))
            /\ subsets.df_night = SelectSeq(full, LAMBDA r : IsSet(r.Night))
            /\ subsets.df_ground_night =
                  SelectSeq(full, LAMBDA r : IsSet(r.Ground) /\ IsSet(r.Night))
            /\ subsets.df_ground_day =
                  SelectSeq(full, LAMBDA r : IsSet(r.Ground) /\ IsSet(r.Day))
            /\ subsets.df_not_ground_night =
                  SelectSeq(full, LAMBDA r : IsClear(r.Ground) /\ IsSet(r.Night))
            /\ subsets.df_not_ground_day =
                  SelectSeq(full, LAMBDA r : IsClear(r.Ground) /\ IsSet(r.Day))
            /\ \A k \in 1..Len(full) :
                (\A n \in 1..Len(events) : events[n].date # full[k].date) =>
                    /\ full[k].Ground = NaN /\ full[k].Night = NaN
                    /\ full[k].Day = NaN
                    /\ \A name \in TaggedSheets :
                        \A j \in 1..Len(subsets[name]) :
                            subsets[name][j].date # full[k].date

\* C19 witness: a ground event at night, an elevated event by day and slots
\* without event
C19_Witness ==
    /\ pc = "combined"
    /\ subsets.df_ground_night # <<>>
    /\ subsets.df_not_ground_day # <<>>
    /\ \E k \in 1..Len(subsets.df_full) : subsets.df_full[k].Ground = NaN
    /\ Len(subsets.df_ground) + Len(subsets.df_not_ground)
           < Len(subsets.df_full)

\* the rows of the full table that the join matched to an event
MatchedRows ==
    SelectSeq(subsets.df_full,
              LAMBDA r : \E n \in 1..Len(EventsIn(all_inversions)) :
                             EventsIn(all_inversions)[n].date = r.date)

\* the rows of a sheet, as a set
RowsOf(sheet) == {sheet[k] : k \in 1..Len(sheet)}

\* the sheets share no row and hold, together, the matched rows, each once
PartitionMatched(sheets) ==
    /\ \A a, b \in sheets :
           a # b => RowsOf(subsets[a]) \cap RowsOf(subsets[b]) = {}
    /\ UNION {RowsOf(subsets[a]) : a \in sheets} = RowsOf(MatchedRows)
    /\ \A r \in RowsOf(MatchedRows) :
           Len(SelectSeq(MatchedRows, LAMBDA x : x = r))
             = Len(SelectSeq(subsets.df_ground_day, LAMBDA x : x = r))
               + Len(SelectSeq(subsets.df_ground_night, LAMBDA x : x = r))
               + Len(SelectSeq(subsets.df_not_ground_day, LAMBDA x : x = r))
               + Len(SelectSeq(subsets.df_not_ground_night, LAMBDA x : x = r))

\* C26: every row of the full table matched to an event has exactly one of
\* Day and Night set, so ground_day, ground_night, not_ground_day and
\* not_ground_night are pairwise disjoint with the matched rows as their
\* union; day and night partition the matched rows, and so do ground and
\* not_ground.
C26_MatchedRowsArePartitioned ==
    pc = "combined" =>
        /\ \A k \in 1..Len(MatchedRows) :
               \/ IsSet(MatchedRows[k].Day) /\ IsClear(MatchedRows[k].Night)
               \/ IsClear(MatchedRows[k].Day) /\ IsSet(MatchedRows[k].Night)
        /\ PartitionMatched({"df_ground_day", "df_ground_night",
                             "df_not_ground_day", "df_not_ground_night"})
        /\ PartitionMatched({"df_day", "df_night"})
        /\ PartitionMatched({"df_ground", "df_not_ground"})

\* C26 witness: a ground event and an elevated event matched at 00Z, with
\* an 06Z event queued that no slot takes
C26_Witness ==
    /\ pc = "combined"
    /\ subsets.df_ground_night # <<>>
    /\ subsets.df_not_ground_night # <<>>
    /\ \E n \in 1..Len(EventsIn(all_inversions)) :
           EventsIn(all_inversions)[n].date.hour = 6
    /\ Len(MatchedRows) < Len(subsets.df_full)

\* the timestamp is 00Z or 12Z of a day of the requested months
InRequestedRange(t) ==
    /\ t.year = year
    /\ t.month >= months[1] /\ t.month <= months[Len(months)]
    /\ t.day >= 1 /\ t.day <= TrueLastDay(t.year, t.month)
    /\ t.hour \in {0, 12}

\* the row carries the fields of the event
CarriesEvent(row, e) ==
    /\ row.date = e.date
    /\ row.dT = e.dT /\ row.dH = e.dH /\ row.HL = e.HL /\ row.TL = e.TL
    /\ row.Ground = Num(e.Ground) /\ row.Night = Num(e.Night)
    /\ row.Day = Num(e.Day)
    /\ row.extra = e.extra

\* C20: every queued event at 00Z or 12Z of a day of the requested months is
\* a row of the full table, with its fields.
C20_FullTableHasEveryEvent ==
    pc = "combined" =>
        LET events == Flatten(all_inversions)
        IN  \A n \in 1..Len(events) :
                InRequestedRange(events[n].date) =>
                    \E k \in 1..Len(subsets.df_full) :
                        CarriesEvent(subsets.df_full[k], events[n])

----------------------------------------------------------------------------
(* SpecRun: process_data for January.. of 2021, up to MaxMonths months,     *)
(* each month with no text or one of the pages of PageSet                   *)

\* a sounding without inversion
FlatBlock == Block(StdNames, LadderRows(<<Num(-1), Num(-3), Num(-5)>>))

\* a data row with a field that is no number
BadFieldBlock ==
    Block(StdNames, <<<<Num(50), StrField, StdWind>>, <<Num(100), Num(-1), StdWind>>>>)

\* a block with the column-name row only
ShortBlock == <<FrameLine, RuleLine, NamesLine(StdNames), FrameLine>>

\* blocks whose column-name row lacks SKNT, TEMP, HGHT
NoSkntBlock ==
    Block(<<"HGHT", "TEMP", "DRCT">>, LadderRows(<<Num(-5), Num(-3), Num(-1)>>))

NoTempBlock ==
    Block(<<"HGHT", "DWPT", "SKNT">>, LadderRows(<<Num(-5), Num(-3), Num(-1)>>))

NoHghtBlock ==
    Block(<<"PRES", "TEMP", "SKNT">>, LadderRows(<<Num(-5), Num(-3), Num(-1)>>))

\* blocks process_sounding returns from
PlainBlocks == {OneRunBlock, FlatBlock, BadFieldBlock, ShortBlock}

\* blocks process_sounding raises on
RaisingBlocks == {NoSkntBlock, NoTempBlock, NoHghtBlock}

\* the header of sounding k of the page of month m: 00Z and 12Z of day 1,
\* 00Z and 12Z of day 2, ...
HeaderOf(y, m, k) == Header(TRUE, 12 * ((k + 1) % 2), (k + 1) \div 2, m, y)

HeadersFor(y, m, n) == [k \in 1..n |-> HeaderOf(y, m, k)]

\* the pages of month m: one header per block, a raising block being the last
\* of its page (the run does not get past it), a page of two soundings, and a
\* page with one block more than headers
PageSet(y, m) ==
    {Page(HeadersFor(y, m, Len(blocks)), blocks) :
        blocks \in SeqsUpTo(PlainBlocks, MaxProfiles)}
    \cup {Page(HeadersFor(y, m, Len(blocks) + 1), Append(blocks, last)) :
            blocks \in SeqsUpTo(PlainBlocks, MaxProfiles - 1),
            last \in RaisingBlocks}
    \cup {Page(HeadersFor(y, m, 2), <<FlatBlock, TwoRunBlock>>)}
    \cup {Page(HeadersFor(y, m, 2), <<OneRunBlock, TwoRunBlock, FlatBlock>>)}

InitRun ==
    /\ pc = "month"
    /\ year = 2021
    /\ \E n \in 0..MaxMonths : months = MonthRange(1, n)
    /\ use_local_files \in BOOLEAN
    /\ variant = "package" /\ scan = Idle
    /\ cmd = Idle /\ console = Idle
    /\ month_i = 1
    /\ html_content = NoHtml
    /\ soundings = <<>> /\ snd_i = 1
    /\ summary = [processed |-> 0, failed |-> 0, files |-> <<>>, handled |-> 0]
    /\ all_inversions = <<>>
    /\ error = "none"
    /\ month_log = <<>>
    /\ subsets = NoSheets
    /\ h2_tags = Idle /\ pre_tags = Idle
    /\ raw_text = Idle /\ time = Idle /\ result = Idle

\* lines 158-189: one month is loaded (a local file, or the file fetch_data
\* wrote) and split, or skipped
LoadMonth ==
    /\ UNCHANGED <<variant, scan, cmd, console>>
    /\ pc = "month" /\ month_i <= Len(months)
    /\ \E html \in {NoHtml} \cup PageSet(year, months[month_i]) :
        /\ html_content' = html
        /\ month_log' = Append(month_log,
               MonthEntry(months[month_i], html, use_local_files, summary))
        /\ IF SkipsMonth(use_local_files, html)
           THEN /\ month_i' = month_i + 1
                /\ UNCHANGED <<pc, soundings, snd_i, error>>
           ELSE IF SoupRaises(html)
           THEN /\ pc' = "aborted" /\ error' = "TypeError"
                /\ UNCHANGED <<month_i, soundings, snd_i>>
           ELSE /\ soundings' = extract_soundings_from_html(html)
                /\ snd_i' = 1
                /\ IF soundings' = <<>>
                   THEN pc' = "month" /\ month_i' = month_i + 1
                   ELSE pc' = "profile" /\ UNCHANGED month_i
                /\ UNCHANGED error
    /\ UNCHANGED <<h2_tags, pre_tags, raw_text, time, result, year, months,
                   use_local_files, summary, all_inversions, subsets>>

\* lines 191-228: one sounding of the month is processed and counted
HandleProfile ==
    /\ UNCHANGED <<variant, scan, cmd, console>>
    /\ pc = "profile" /\ snd_i <= Len(soundings)
    /\ raw_text' = soundings[snd_i].raw_text
    /\ time' = soundings[snd_i].time
    /\ result' = process_sounding(raw_text', time')
    /\ IF result'.status = "KeyError"
       THEN /\ pc' = "aborted" /\ error' = "KeyError"
            /\ summary' = CountRaised(summary)
            /\ UNCHANGED <<all_inversions, snd_i, month_i>>
       ELSE /\ IF HasEvents(result')
               THEN /\ summary' = CountProcessed(summary, time')
                    /\ all_inversions' =
                           Append(all_inversions, SingleData(result'.df_inverse))
               ELSE /\ summary' = CountFailed(summary)
                    /\ UNCHANGED all_inversions
            /\ snd_i' = snd_i + 1
            /\ IF snd_i = Len(soundings)
               THEN pc' = "month" /\ month_i' = month_i + 1
               ELSE UNCHANGED <<pc, month_i>>
            /\ UNCHANGED error
    /\ UNCHANGED <<h2_tags, pre_tags, soundings, year, months, use_local_files,
                   html_content, month_log, subsets>>

\* lines 230-234: the combined file, and the summary is returned
Finish ==
    /\ UNCHANGED <<variant, scan, cmd, console>>
    /\ pc = "month" /\ month_i > Len(months)
    /\ IF ShouldCombine(all_inversions)
       THEN IF ConcatRaises(all_inversions)
            THEN pc' = "aborted" /\ error' = "ValueError" /\ UNCHANGED subsets
            ELSE /\ subsets' = create_combined_file(all_inversions, year, months)
                 /\ pc' = "done"
                 /\ UNCHANGED error
       ELSE pc' = "done" /\ UNCHANGED <<subsets, error>>
    /\ UNCHANGED <<h2_tags, pre_tags, soundings, raw_text, time, result, year,
                   months, use_local_files, month_i, html_content, snd_i,
                   summary, all_inversions, month_log>>

NextRun == LoadMonth \/ HandleProfile \/ Finish

SpecRun == InitRun /\ [][NextRun]_vars

----------------------------------------------------------------------------
(* SpecRun: claims *)

\* the counts after the month of entry k of month_log was left
CountsAfter(k) ==
    IF k < Len(month_log)
    THEN [processed |-> month_log[k + 1].processed,
          failed |-> month_log[k + 1].failed]
    ELSE [processed |-> summary.processed, failed |-> summary.failed]

\* C6: no profile's failure aborts the run: process_sounding never raises out
\* of process_data, and every profile handed to it has been counted, as
\* processed or as failed.
C6_ProfileFailureIsOnlyCounted ==
    /\ ~(pc = "aborted" /\ error = "KeyError")
    /\ summary.handled = summary.processed + summary.failed

\* C7: in both modes a month without report text is skipped: the splitter is
\* not called for it, the run is not aborted, the counts are as they were
\* before it, and a finished run went through every requested month.
C7_MonthWithoutTextIsSkipped ==
    /\ \A k \in 1..Len(month_log) :
          ~month_log[k].had_text =>
              /\ ~month_log[k].split_called
              /\ ~(pc = "aborted" /\ error = "TypeError")
              /\ CountsAfter(k).processed = month_log[k].processed
              /\ CountsAfter(k).failed = month_log[k].failed
    /\ pc = "done" => Len(month_log) = Len(months)

\* a frame whose rows are the grid of the months, every event field null
AllNullGrid(df) ==
    LET grid == Grid(year, months)
    IN  /\ Len(df) = Len(grid)
        /\ \A k \in 1..Len(df) : df[k] = NullRow(grid[k])

SomeFieldIsText(raw) ==
    \E r \in 1..Len(DataRows(raw)) : \E c \in 1..Len(DataRows(raw)[r].cells) :
        DataRows(raw)[r].cells[c] = StrField

\* C13: a profile with a field that is no number gives (None, None), adds one
\* to failed, leaves processed and the files as they were and queues nothing
\* for the combined file.
C13_BadFieldIsCountedFailed ==
    [][(pc = "profile" /\ SomeFieldIsText(raw_text'))
        =>  /\ result'.status = "none"
            /\ result'.df = NoFrame /\ result'.df_inverse = NoFrame
            /\ pc' # "aborted"
            /\ summary'.failed = summary.failed + 1
            /\ summary'.processed = summary.processed
            /\ summary'.files = summary.files
            /\ all_inversions' = all_inversions]_vars

\* C13 witness: the block with a text in its TEMP column was handled after a
\* profile with events, and is the only failed profile
C13_Witness ==
    /\ pc \in {"month", "profile"}
    /\ summary.handled = 2
    /\ summary.failed = 1 /\ summary.processed = 1
    /\ raw_text = BadFieldBlock
    /\ result.status = "none"
    /\ Len(all_inversions) = 1

\* the profile handled by this step has an event that is retained
YieldsEvent(res) == res.status = "ok" /\ SingleData(res.df_inverse) # <<>>

\* C14: every profile the splitter returned adds one to exactly one of
\* processed and failed, to processed iff it has a retained event; after it
\* processed + failed is the number of profiles handled, and the recorded
\* files and the queued tables are as many as processed.
C14_EachProfileCountedOnce ==
    [][pc = "profile"
        =>  /\ IF YieldsEvent(result')
               THEN /\ summary'.processed = summary.processed + 1
                    /\ summary'.failed = summary.failed
               ELSE /\ summary'.processed = summary.processed
                    /\ summary'.failed = summary.failed + 1
            /\ summary'.processed + summary'.failed = summary'.handled
            /\ Len(summary'.files) = summary'.processed
            /\ Len(all_inversions') = summary'.processed]_vars

----------------------------------------------------------------------------
(* SpecWind: the conversion of line 85 on wind speeds 0.00 .. 20.00 kt in   *)
(* steps of 0.01 and 0.0 .. 200.0 kt in steps of 0.1; raw_text is the SKNT  *)
(* field as a number of 1/100 kt, result the stored value in 1/100 m/s      *)

WindGrid ==
    (0..MaxWindHundredths) \cup {10 * k : k \in 0..MaxWindTenths}

InitWind ==
    /\ pc = "wind"
    /\ raw_text \in WindGrid
    /\ result = Idle
    /\ variant = "package" /\ scan = Idle
    /\ cmd = Idle /\ console = Idle
    /\ time = Idle
    /\ h2_tags = Idle /\ pre_tags = Idle /\ soundings = Idle
    /\ year = Idle /\ months = Idle /\ use_local_files = Idle
    /\ month_i = Idle /\ html_content = Idle /\ snd_i = Idle
    /\ summary = Idle /\ all_inversions = Idle /\ error = Idle
    /\ month_log = Idle /\ subsets = Idle

ConvertWind ==
    /\ pc = "wind"
    /\ result' = RoundedMs(raw_text)
    /\ pc' = "converted"
    /\ UNCHANGED <<h2_tags, pre_tags, soundings, raw_text, time, year, months,
                   use_local_files, month_i, html_content, snd_i, summary,
                   all_inversions, error, month_log, subsets, variant, scan,
                   cmd, console>>

NextWind == ConvertWind

SpecWind == InitWind /\ [][NextWind]_vars

----------------------------------------------------------------------------
(* Claims about the wind speed conversion, under SpecWind *)

\* the 14 decimals of 0.51444444444444, the last one first
FactorDigits == <<4, 4, 4, 4, 4, 4, 4, 4, 4, 4, 4, 4, 1, 5>>

RECURSIVE TimesFactor(_, _, _, _)
\* v * 0.51444444444444 by written multiplication, from decimal k on:
\* [whole |-> the integer part, decimals |-> its 14 decimals, last first]
TimesFactor(v, k, carry, out) ==
    IF k > Len(FactorDigits) THEN [whole |-> carry, decimals |-> out]
    ELSE LET t == v * FactorDigits[k] + carry
         IN  TimesFactor(v, k + 1, t \div 10, Append(out, t % 10))

Product(v) == TimesFactor(v, 1, 0, <<>>)

\* the product rounded to an integer, a half to the even neighbour
RoundHalfEven(p) ==
    LET first == p.decimals[14]
        rest  == \E k \in 1..13 : p.decimals[k] # 0
    IN  IF first > 5 \/ (first = 5 /\ rest) THEN p.whole + 1
        ELSE IF first < 5 THEN p.whole
        ELSE IF p.whole % 2 = 0 THEN p.whole ELSE p.whole + 1

\* s <= v * 0.51444444444444
AtMostProduct(s, v) == s <= Product(v).whole

\* s >= v * 0.51444444444444
AtLeastProduct(s, v) ==
    \/ s > Product(v).whole
    \/ s = Product(v).whole /\ \A k \in 1..14 : Product(v).decimals[k] = 0

\* C23: the stored value is round(v * 0.51444444444444, 2), and the stored
\* value divided by the factor is within 0.01 kt of v: it lies between
\* (v - 0.01) and (v + 0.01) times the factor.
C23_WindRoundTrip ==
    pc = "converted" =>
        /\ result = RoundHalfEven(Product(raw_text))
        /\ AtMostProduct(result, raw_text + 1)
        /\ raw_text >= 1 => AtLeastProduct(result, raw_text - 1)

\* C23 witness: 12.3 kt is stored as 6.33 m/s (6.3276...), which gives
\* back 12.3047 kt
C23_Witness ==
    pc = "converted" /\ raw_text = 1230 /\ result = 633

----------------------------------------------------------------------------
(* SpecScan: the loop of process_sounding (processor.py:91-135) step by     *)
(* step, on every TEMP column of up to MaxScanLevels levels, with missing   *)
(* temperatures. scan = [T, i, j, inversion_start, runs, tested, reads]:    *)
(* T the column, i and j the indices (level i of the model is iloc[i - 1]), *)
(* runs the [start, end] handled, tested the indices tested at line 95 in   *)
(* order, reads the indices read so far                                     *)

FloatsOf(vals) == {Num(x) : x \in vals} \cup {NaN}

InitScan ==
    /\ pc = "scan_test"
    /\ \E T \in SeqsUpTo(FloatsOf(TempVals), MaxScanLevels) :
          scan = [T |-> T, i |-> 1, j |-> 1, inversion_start |-> 1,
                  runs |-> <<>>, tested |-> <<>>, reads |-> {}]
    /\ error = "none"
    /\ variant = "package"
    /\ raw_text = Idle /\ time = Idle /\ result = Idle
    /\ h2_tags = Idle /\ pre_tags = Idle /\ soundings = Idle
    /\ year = Idle /\ months = Idle /\ use_local_files = Idle
    /\ month_i = Idle /\ html_content = Idle /\ snd_i = Idle
    /\ summary = Idle /\ all_inversions = Idle
    /\ month_log = Idle /\ subsets = Idle
    /\ cmd = Idle /\ console = Idle

\* lines 93-96 and 135: the loop test and the start test at i
TestStart ==
    /\ pc = "scan_test"
    /\ scan.i < Len(scan.T)
    /\ IF StartsRun(scan.T, scan.i)
       THEN /\ scan' = [scan EXCEPT !.inversion_start = scan.i,
                                    !.j = scan.i + 1,
                                    !.tested = Append(@, scan.i),
                                    !.reads = @ \cup {scan.i, scan.i + 1}]
            /\ pc' = "scan_extend"
       ELSE /\ scan' = [scan EXCEPT !.i = scan.i + 1,
                                    !.tested = Append(@, scan.i),
                                    !.reads = @ \cup {scan.i, scan.i + 1}]
            /\ pc' = "scan_test"
    /\ UNCHANGED <<h2_tags, pre_tags, soundings, raw_text, time, result, year,
                   months, use_local_files, month_i, html_content, snd_i,
                   summary, all_inversions, error, month_log, subsets, variant,
                   cmd, console>>

\* line 93: the loop ends
ExitScan ==
    /\ pc = "scan_test"
    /\ ~(scan.i < Len(scan.T))
    /\ pc' = "scanned"
    /\ UNCHANGED <<h2_tags, pre_tags, soundings, raw_text, time, result, year,
                   months, use_local_files, month_i, html_content, snd_i,
                   summary, all_inversions, error, month_log, subsets, variant,
                   scan, cmd, console>>

\* lines 100-101: one test of the inner loop; iloc raises IndexError on an
\* index past the last level
ExtendRun ==
    /\ pc = "scan_extend"
    /\ IF ~WithinProfile(scan.T, scan.j)
       THEN pc' = "scan_close" /\ UNCHANGED <<scan, error>>
       ELSE IF scan.j + 1 > Len(scan.T)
       THEN /\ pc' = "scan_raised" /\ error' = "IndexError"
            /\ scan' = [scan EXCEPT !.reads = @ \cup {scan.j + 1}]
       ELSE /\ IF Ge(scan.T[scan.j + 1], scan.T[scan.j])
               THEN /\ scan' = [scan EXCEPT !.j = scan.j + 1,
                                   !.reads = @ \cup {scan.j, scan.j + 1}]
                    /\ pc' = "scan_extend"
               ELSE /\ scan' = [scan EXCEPT
                                   !.reads = @ \cup {scan.j, scan.j + 1}]
                    /\ pc' = "scan_close"
            /\ UNCHANGED error
    /\ UNCHANGED <<h2_tags, pre_tags, soundings, raw_text, time, result, year,
                   months, use_local_files, month_i, html_content, snd_i,
                   summary, all_inversions, month_log, subsets, variant, cmd,
                   console>>

\* lines 103-135: the run is handled and the scan goes on after it
CloseRun ==
    /\ pc = "scan_close"
    /\ scan' = [scan EXCEPT
                   !.runs = Append(@, [start |-> scan.inversion_start,
                                       end |-> scan.j]),
                   !.i = Resume(scan.j)]
    /\ pc' = "scan_test"
    /\ UNCHANGED <<h2_tags, pre_tags, soundings, raw_text, time, result, year,
                   months, use_local_files, month_i, html_content, snd_i,
                   summary, all_inversions, error, month_log, subsets, variant,
                   cmd, console>>

NextScan == TestStart \/ ExitScan \/ ExtendRun \/ CloseRun

SpecScan == InitScan /\ [][NextScan]_vars

\* the loop is not left standing: a step that can be taken is taken
SpecScanFair == SpecScan /\ WF_vars(NextScan)

\* the levels of a run
LevelsOfRun(r) == r.start .. r.end

\* the runs handled so far lie one after the other, none sharing a level
\* with an earlier one
RunsInIndexOrder ==
    \A a, b \in 1..Len(scan.runs) :
        a < b => /\ scan.runs[a].start < scan.runs[b].start
                 /\ LevelsOfRun(scan.runs[a]) \cap LevelsOfRun(scan.runs[b]) = {}

\* the index tested after the start of a handled run is the one after its end
NextTestIsAfterRun ==
    \A k \in 1..Len(scan.runs) : \A n \in 1..Len(scan.tested) :
        (scan.tested[n] = scan.runs[k].start /\ n < Len(scan.tested))
            => scan.tested[n + 1] = scan.runs[k].end + 1

\* the step that handles a run leaves the scan at the level after the run
RunHandledThenNext ==
    pc = "scan_close" => (pc' = "scan_test" /\ scan'.i = scan.j + 1)

\* C25: after the scan handles a run [i, j] the next index tested as a run
\* start is j + 1, so the runs (and the segments kept among them) come in
\* strictly increasing index order and no level belongs to two of them
C25_ScanResumesAfterRun ==
    /\ [](pc \in {"scan_test", "scan_extend", "scan_close", "scanned"}
            => (RunsInIndexOrder /\ NextTestIsAfterRun))
    /\ [][RunHandledThenNext]_vars

\* two runs were handled, levels 1-2 and 3-4: after the first the scan
\* tested level 3 and no level in between
C25_Witness ==
    /\ pc = "scanned"
    /\ Len(scan.runs) = 2
    /\ scan.runs[1] = [start |-> 1, end |-> 2]
    /\ scan.runs[2] = [start |-> 3, end |-> 4]
    /\ scan.tested = <<1, 3>>

\* every index read is one of the N levels
ReadsWithinProfile ==
    /\ scan.reads \subseteq 1..Len(scan.T)
    /\ error # "IndexError"
    /\ pc # "scan_raised"

\* no index is tested as a run start twice: the tested indices go up
TestedOnce ==
    \A a, b \in 1..Len(scan.tested) : a < b => scan.tested[a] < scan.tested[b]

\* a pass of the outer loop leaves i larger than it found it
OuterPassAdvances ==
    (pc \in {"scan_test", "scan_close"} /\ pc' = "scan_test")
        => scan'.i > scan.i

\* C28: for every profile of N levels (N = 0 and N = 1 included, missing
\* temperatures included) the scan terminates, i strictly increases on every
\* outer pass, each index is tested as a run start at most once, and no
\* index outside the N levels is read
C28_ScanTerminatesInBounds ==
    /\ [](pc \in {"scan_test", "scan_extend", "scan_close", "scanned",
                  "scan_raised"} => (ReadsWithinProfile /\ TestedOnce))
    /\ [][OuterPassAdvances]_vars
    /\ <>(pc = "scanned")

\* a scan of five levels, one without temperature, ended with a run that
\* reaches the last level
C28_Witness ==
    /\ pc = "scanned"
    /\ Len(scan.T) = 5
    /\ \E n \in 1..5 : scan.T[n] = NaN
    /\ Len(scan.runs) > 0
    /\ scan.runs[Len(scan.runs)].end = 5
    /\ scan.reads = 1..5

----------------------------------------------------------------------------
(* SpecCli: the command lines that simple_tool.py and gui.py build for      *)
(* weather_tool.py, and what the argument parser of weather_tool.py makes   *)
(* of them. A command line is a list of tokens: words, options and numbers  *)

MaxCliMonth == 3

Word(text) == [kind |-> "word", name |-> text, value |-> 0]
Opt(name)  == [kind |-> "opt", name |-> name, value |-> 0]
Val(n)     == [kind |-> "val", name |-> "", value |-> n]

\* weather_tool.py:330-335: the store_true options
FlagOptions == {"--fetch", "--process"}

\* weather_tool.py:338-346: the options that take an integer
ValueOptions == {"--year", "--month", "--end-month", "--station"}

\* weather_tool.py:338
DefaultYear == 2021

\* weather_tool.py:341-342
DefaultMonth == 1

\* weather_tool.py:346
DefaultStation == 26075

\* weather_tool.py:345: --end-month has no default (None)
NoEndMonth == 0

\* the namespace before any token is read
DefaultArgs ==
    [ok |-> TRUE, fetch |-> FALSE, process |-> FALSE, year |-> DefaultYear,
     month |-> DefaultMonth, end_month |-> NoEndMonth,
     station |-> DefaultStation]

\* parser.error(): usage message, exit status 2
UsageError == [DefaultArgs EXCEPT !.ok = FALSE]

\* the field of the namespace an option is stored in
DestOf(name) ==
    CASE name = "--fetch"     -> "fetch"
      [] name = "--process"   -> "process"
      [] name = "--year"      -> "year"
      [] name = "--month"     -> "month"
      [] name = "--end-month" -> "end_month"
      [] name = "--station"   -> "station"

RECURSIVE ParseArgs(_, _)
\* weather_tool.py:348: parser.parse_args() on the tokens after the script
\* name. An option the parser does not define, a number without option, an
\* option without its number, or --fetch together with --process (line 329)
\* ends in parser.error(). None of the option names the front ends use is a
\* prefix of a defined one, so abbreviations play no part
ParseArgs(argv, args) ==
    IF argv = <<>> THEN args
    ELSE LET tok == Head(argv)
         IN  IF tok.kind # "opt" THEN UsageError
             ELSE IF tok.name \in FlagOptions
             THEN IF (tok.name = "--fetch" /\ args.process)
                        \/ (tok.name = "--process" /\ args.fetch)
                  THEN UsageError
                  ELSE ParseArgs(Tail(argv),
                                 [args EXCEPT ![DestOf(tok.name)] = TRUE])
             ELSE IF tok.name \in ValueOptions
             THEN IF Len(argv) < 2 \/ argv[2].kind # "val" THEN UsageError
                  ELSE ParseArgs(Tail(Tail(argv)),
                                 [args EXCEPT ![DestOf(tok.name)] = argv[2].value])
             ELSE UsageError

\* weather_tool.py:351-356: the mode and the months of the run
RunOf(args) ==
    LET end_month == IF args.end_month # NoEndMonth THEN args.end_month
                     ELSE args.month
    IN  [do_fetch   |-> args.fetch \/ ~(args.fetch \/ args.process),
         do_process |-> args.process \/ ~(args.fetch \/ args.process),
         year       |-> args.year,
         months     |-> MonthRange(args.month, end_month),
         station    |-> args.station]

\* the first tokens of every command line: "python", "weather_tool.py"
Script == <<Word("python"), Word("weather_tool.py")>>

\* simple_tool.py:89-90, 118-119, 148-149
EndMonthIfRange(start_month, end_month) ==
    IF start_month # end_month THEN <<Opt("--end-month"), Val(end_month)>>
    ELSE <<>>

\* simple_tool.py:77-90
simple_fetch_cmd(y, start_month, end_month, station) ==
    Script \o <<Opt("--fetch"), Opt("--year"), Val(y), Opt("--month"),
                Val(start_month), Opt("--station"), Val(station)>>
           \o EndMonthIfRange(start_month, end_month)

\* simple_tool.py:105-119
simple_process_cmd(y, start_month, end_month, station) ==
    Script \o <<Opt("--process"), Opt("--year"), Val(y), Opt("--month"),
                Val(start_month), Opt("--station"), Val(station),
                Opt("--use-local")>>
           \o EndMonthIfRange(start_month, end_month)

\* simple_tool.py:137-149
simple_fetch_and_process_cmd(y, start_month, end_month, station) ==
    Script \o <<Opt("--year"), Val(y), Opt("--month"), Val(start_month),
                Opt("--station"), Val(station)>>
           \o EndMonthIfRange(start_month, end_month)

\* gui.py:398-400, 467-469
EndMonthIfChecked(multi_month, end_month) ==
    IF multi_month THEN <<Opt("--end-month"), Val(end_month)>> ELSE <<>>

\* gui.py:385-400
gui_fetch_cmd(y, start_month, multi_month, end_month, station) ==
    Script \o <<Opt("--fetch"), Opt("--year"), Val(y), Opt("--month"),
                Val(start_month), Opt("--station"), Val(station)>>
           \o EndMonthIfChecked(multi_month, end_month)

\* gui.py:472-473
UseLocalIfSelected(data_source) ==
    IF data_source = "local" THEN <<Opt("--use-local")>> ELSE <<>>

\* gui.py:454-473
gui_process_cmd(y, start_month, multi_month, end_month, station, data_source) ==
    Script \o <<Opt("--process"), Opt("--year"), Val(y), Opt("--month"),
                Val(start_month), Opt("--station"), Val(station)>>
           \o EndMonthIfChecked(multi_month, end_month)
           \o UseLocalIfSelected(data_source)

\* simple_tool.py:30-31: a year the prompt accepts; gui.py: the year field
CliYears == {2021, 2024}

\* simple_tool.py:64, gui.py:382: station ids
CliStations == {26075, 27612}

\* simple_tool.py:40-41, gui.py:381: the months offered
CliMonths == 1..MaxCliMonth

\* gui.py:260-267: the two radio buttons
DataSources == {"local", "fetch"}

\* what a front end hands to subprocess
Launched(by, argv) == [by |-> by, argv |-> argv]

InitCli ==
    /\ pc = "menu"
    /\ cmd = Launched("none", <<>>)
    /\ result = Idle
    /\ error = "none"
    /\ variant = "standalone"
    /\ raw_text = Idle /\ time = Idle
    /\ h2_tags = Idle /\ pre_tags = Idle /\ soundings = Idle
    /\ year = Idle /\ months = Idle /\ use_local_files = Idle
    /\ month_i = Idle /\ html_content = Idle /\ snd_i = Idle
    /\ summary = Idle /\ all_inversions = Idle
    /\ month_log = Idle /\ subsets = Idle
    /\ scan = Idle /\ console = Idle

\* simple_tool.py:72-95: menu option "fetch"
SimpleFetch ==
    /\ pc = "menu"
    /\ \E y \in CliYears, s \in CliStations, m \in CliMonths :
         \E e \in m..MaxCliMonth :
            cmd' = Launched("simple_tool.fetch_data", simple_fetch_cmd(y, m, e, s))
    /\ pc' = "launched"
    /\ UNCHANGED <<h2_tags, pre_tags, soundings, raw_text, time, result, year,
                   months, use_local_files, month_i, html_content, snd_i,
                   summary, all_inversions, error, month_log, subsets, variant,
                   scan, console>>

\* simple_tool.py:100-124: menu option "process"
SimpleProcess ==
    /\ pc = "menu"
    /\ \E y \in CliYears, s \in CliStations, m \in CliMonths :
         \E e \in m..MaxCliMonth :
            cmd' = Launched("simple_tool.process_data",
                            simple_process_cmd(y, m, e, s))
    /\ pc' = "launched"
    /\ UNCHANGED <<h2_tags, pre_tags, soundings, raw_text, time, result, year,
                   months, use_local_files, month_i, html_content, snd_i,
                   summary, all_inversions, error, month_log, subsets, variant,
                   scan, console>>

\* simple_tool.py:132-154: menu option "fetch and process"
SimpleFetchAndProcess ==
    /\ pc = "menu"
    /\ \E y \in CliYears, s \in CliStations, m \in CliMonths :
         \E e \in m..MaxCliMonth :
            cmd' = Launched("simple_tool.fetch_and_process",
                            simple_fetch_and_process_cmd(y, m, e, s))
    /\ pc' = "launched"
    /\ UNCHANGED <<h2_tags, pre_tags, soundings, raw_text, time, result, year,
                   months, use_local_files, month_i, html_content, snd_i,
                   summary, all_inversions, error, month_log, subsets, variant,
                   scan, console>>

\* gui.py:377-444: the Fetch button
GuiFetch ==
    /\ pc = "menu"
    /\ \E y \in CliYears, s \in CliStations, m \in CliMonths, e \in CliMonths,
          multi \in BOOLEAN :
            cmd' = Launched("gui.fetch_data", gui_fetch_cmd(y, m, multi, e, s))
    /\ pc' = "launched"
    /\ UNCHANGED <<h2_tags, pre_tags, soundings, raw_text, time, result, year,
                   months, use_local_files, month_i, html_content, snd_i,
                   summary, all_inversions, error, month_log, subsets, variant,
                   scan, console>>

\* gui.py:446-521: the Process button
GuiProcess ==
    /\ pc = "menu"
    /\ \E y \in CliYears, s \in CliStations, m \in CliMonths, e \in CliMonths,
          multi \in BOOLEAN, src \in DataSources :
            cmd' = Launched("gui.process_data",
                            gui_process_cmd(y, m, multi, e, s, src))
    /\ pc' = "launched"
    /\ UNCHANGED <<h2_tags, pre_tags, soundings, raw_text, time, result, year,
                   months, use_local_files, month_i, html_content, snd_i,
                   summary, all_inversions, error, month_log, subsets, variant,
                   scan, console>>

\* weather_tool.py:325-356: the launched script parses its arguments and
\* either leaves with a usage error or goes on to fetch and process
Main ==
    /\ pc = "launched"
    /\ LET args == ParseArgs(SubSeq(cmd.argv, 3, Len(cmd.argv)), DefaultArgs)
       IN  IF args.ok
           THEN pc' = "running" /\ result' = RunOf(args) /\ UNCHANGED error
           ELSE pc' = "usage_error" /\ error' = "SystemExit(2)"
                /\ UNCHANGED result
    /\ UNCHANGED <<h2_tags, pre_tags, soundings, raw_text, time, year,
                   months, use_local_files, month_i, html_content, snd_i,
                   summary, all_inversions, month_log, subsets, variant,
                   scan, cmd, console>>

NextCli ==
    \/ SimpleFetch \/ SimpleProcess \/ SimpleFetchAndProcess
    \/ GuiFetch \/ GuiProcess \/ Main

SpecCli == InitCli /\ [][NextCli]_vars

\* the option names of a command line
OptionsUsed(argv) == {argv[k].name : k \in {n \in 1..Len(argv) : argv[n].kind = "opt"}}

\* the options weather_tool.py's parser defines (with the -h/--help that
\* argparse adds)
ParserOptions ==
    {"--fetch", "--process", "--year", "--month", "--end-month", "--station",
     "-h", "--help"}

\* C30: every command line a front end builds uses only options that the
\* parser of weather_tool.py defines, and the launched run reaches
\* fetching/processing instead of a usage error.
C30_FrontEndsUseDefinedOptions ==
    /\ pc \in {"launched", "running", "usage_error"}
          => OptionsUsed(cmd.argv) \subseteq ParserOptions
    /\ pc # "usage_error"

----------------------------------------------------------------------------
(* SpecConsole: gui.py's RedirectText between its two threads. The worker   *)
(* thread of run_command prints the lines 1..n of the child process, each   *)
(* print a call of write; the Tk main thread runs one update_text_widget    *)
(* per timer that write set. A text is the list of the line numbers in it.  *)
(* console = [lines, next, wpc, loaded, buffer, timers, mpc, widget]        *)

MaxLines == 3

InitConsole ==
    /\ pc = "console"
    /\ \E n \in 0..MaxLines :
          console = [lines  |-> n,       \* lines the child process prints
                     next   |-> 1,       \* the line the worker prints next
                     wpc    |-> "read",  \* where the worker is in write
                     loaded |-> <<>>,    \* the buffer as the worker read it
                     buffer |-> <<>>,    \* self.buffer
                     timers |-> 0,       \* callbacks set by after, not yet run
                     mpc    |-> "idle",  \* where the main thread is
                     widget |-> <<>>]    \* text of the console widget
    /\ error = "none"
    /\ variant = "standalone"
    /\ raw_text = Idle /\ time = Idle /\ result = Idle
    /\ h2_tags = Idle /\ pre_tags = Idle /\ soundings = Idle
    /\ year = Idle /\ months = Idle /\ use_local_files = Idle
    /\ month_i = Idle /\ html_content = Idle /\ snd_i = Idle
    /\ summary = Idle /\ all_inversions = Idle
    /\ month_log = Idle /\ subsets = Idle
    /\ scan = Idle /\ cmd = Idle

\* gui.py:421-422 and 32: the worker has a line and write reads self.buffer
WriteLoad ==
    /\ pc = "console"
    /\ console.wpc = "read"
    /\ console.next <= console.lines
    /\ console' = [console EXCEPT !.loaded = console.buffer, !.wpc = "store"]
    /\ UNCHANGED <<pc, h2_tags, pre_tags, soundings, raw_text, time, result,
                   year, months, use_local_files, month_i, html_content, snd_i,
                   summary, all_inversions, error, month_log, subsets, variant,
                   scan, cmd>>

\* gui.py:32: write stores the buffer it read with the string appended
WriteStore ==
    /\ pc = "console"
    /\ console.wpc = "store"
    /\ console' = [console EXCEPT
                      !.buffer = Append(console.loaded, console.next),
                      !.wpc = "after"]
    /\ UNCHANGED <<pc, h2_tags, pre_tags, soundings, raw_text, time, result,
                   year, months, use_local_files, month_i, html_content, snd_i,
                   summary, all_inversions, error, month_log, subsets, variant,
                   scan, cmd>>

\* gui.py:34: write sets a timer for update_text_widget and returns
WriteAfter ==
    /\ pc = "console"
    /\ console.wpc = "after"
    /\ console' = [console EXCEPT !.timers = @ + 1, !.next = @ + 1,
                                  !.wpc = "read"]
    /\ UNCHANGED <<pc, h2_tags, pre_tags, soundings, raw_text, time, result,
                   year, months, use_local_files, month_i, html_content, snd_i,
                   summary, all_inversions, error, month_log, subsets, variant,
                   scan, cmd>>

\* gui.py:424: the child's output has ended
WorkerEnds ==
    /\ pc = "console"
    /\ console.wpc = "read"
    /\ console.next > console.lines
    /\ console' = [console EXCEPT !.wpc = "done"]
    /\ UNCHANGED <<pc, h2_tags, pre_tags, soundings, raw_text, time, result,
                   year, months, use_local_files, month_i, html_content, snd_i,
                   summary, all_inversions, error, month_log, subsets, variant,
                   scan, cmd>>

\* gui.py:36-38: a timer fires and update_text_widget inserts self.buffer
UpdateInsert ==
    /\ pc = "console"
    /\ console.mpc = "idle"
    /\ console.timers > 0
    /\ console' = [console EXCEPT !.widget = @ \o console.buffer,
                                  !.timers = @ - 1,
                                  !.mpc = "inserted"]
    /\ UNCHANGED <<pc, h2_tags, pre_tags, soundings, raw_text, time, result,
                   year, months, use_local_files, month_i, html_content, snd_i,
                   summary, all_inversions, error, month_log, subsets, variant,
                   scan, cmd>>

\* gui.py:39-41: update_text_widget scrolls, locks the widget and sets
\* self.buffer to ""
UpdateReset ==
    /\ pc = "console"
    /\ console.mpc = "inserted"
    /\ console' = [console EXCEPT !.buffer = <<>>, !.mpc = "idle"]
    /\ UNCHANGED <<pc, h2_tags, pre_tags, soundings, raw_text, time, result,
                   year, months, use_local_files, month_i, html_content, snd_i,
                   summary, all_inversions, error, month_log, subsets, variant,
                   scan, cmd>>

NextConsole ==
    \/ WriteLoad \/ WriteStore \/ WriteAfter \/ WorkerEnds
    \/ UpdateInsert \/ UpdateReset

SpecConsole == InitConsole /\ [][NextConsole]_vars

\* both threads have nothing left to do
ConsoleQuiet ==
    /\ console.wpc = "done"
    /\ console.timers = 0
    /\ console.mpc = "idle"

\* C29: under every interleaving of the worker's write and the main thread's
\* update_text_widget, every string written is inserted into the console
\* widget exactly once and in the order written: no line is in the widget
\* twice or out of order, and when both threads are done the widget holds
\* all the lines.
C29_EveryWriteInsertedOnce ==
    pc = "console" =>
        /\ \A a, b \in 1..Len(console.widget) :
               a < b => console.widget[a] < console.widget[b]
        /\ ConsoleQuiet => console.widget = [k \in 1..console.lines |-> k]

====
